---- MODULE Spec2Model ----
(***************************************************************************)
(* Token lifecycle of one account of the Windsurf account manager: the     *)
(* commands of commands/api_commands.rs and commands/switch_account_       *)
(* commands.rs that read, exchange and store the account's token state,    *)
(* run as concurrent asynchronous tasks against one DataStore.             *)
(*                                                                         *)
(* Option<T> numbers are modelled as naturals with 0 for None.  A token or *)
(* refresh token is named by the exchange that issued it; a timestamp is a *)
(* tick of the wall clock `now` (which starts at 1).                       *)
(***************************************************************************)
EXTENDS Integers, Sequences, FiniteSets, TLC

\* ------------------------------------------------------------------ bounds
MaxTime == 2        \* the wall clock runs from 1 to MaxTime
TokenTTL == 2       \* lifetime, in ticks, of a token returned by an exchange
MaxOps == 2         \* commands invoked in one behaviour
MaxBatch == 1       \* ids submitted to one batch_refresh_tokens
MaxRetry == 2       \* largest retry_times given to update_seats
MaxIds == 3         \* ids submitted to one batch command of the executor view
MaxValue == 300     \* every value up to it is given to encode_varint
MaxLen == 3         \* every string length up to it is encoded

\* -------------------------------------------------------- program constants
SwitchBuffer == 1   \* switch_account: remaining validity a cached token needs
DefaultSeatCount == 18
MAX_CONCURRENT == 5  \* batch_reset_credits: futures in progress at once

Procs == {1, 2}     \* concurrently running tasks (tauri async commands)
None == 0

SeatCountOptions == <<18, 19, 20>>
SeatArgs == {None, 19}

\* What the vendor's endpoint answers to one request: status 0 is a transport
\* failure (no response), body tells whether the 200 body decodes.
Responses ==
    { [status |-> 200, body |-> "parsed"],
      [status |-> 200, body |-> "garbage"],
      [status |-> 401, body |-> "none"],
      [status |-> 500, body |-> "none"],
      [status |-> 0,   body |-> "none"] }

VARIABLES
    now,       \* wall clock
    store,     \* DataStore: the account as get_account returns it
    disk,      \* DataStore: the account as last saved to the file
    gen,       \* number of exchanges the identity provider has answered
    started,   \* commands invoked so far
    task,      \* per task slot: the command it runs and the command's locals
    batch,     \* the batch_refresh_tokens invocation
    svc,       \* the WindsurfService call under way, with its locals
    pool,      \* a batch command seen as its buffer_unordered stream
    codec      \* the protobuf encoder or decoder applied last, with its argument

vars == << now, store, disk, gen, started, task, batch, svc, pool, codec >>

\* ------------------------------------------------------------------- values
\* models::Account, the fields the commands of this model read or write.
\* A token (or refresh token) is named by the exchange that issued it and the
\* time of that exchange; NoToken is the absent Option.
NoToken == [id |-> 0, at |-> 0]

Token(g, t) == [id |-> g, at |-> t]

NoAccount == [token |-> NoToken, refresh_token |-> NoToken,
              token_expires_at |-> None, last_seat_count |-> None]

\* (token, refresh_token, expires_at), the tuple an exchange returns.
NoTriple == [token |-> NoToken, refresh_token |-> NoToken, expires_at |-> None]

Triple(a) == [token |-> a.token, refresh_token |-> a.refresh_token,
              expires_at |-> a.token_expires_at]

\* Result<serde_json::Value, String>: an Err with its cause, or an Ok value
\* with its "success" and "status_code" members.
NoResult == [ok |-> FALSE, success |-> FALSE, status_code |-> None, error |-> "none"]
Err(e) == [ok |-> FALSE, success |-> FALSE, status_code |-> None, error |-> e]
OkResult(s, code) == [ok |-> TRUE, success |-> s, status_code |-> code, error |-> "none"]

\* A task slot: pc is the position in the command op; the other fields are
\* the command's arguments and locals under their names in the source, its
\* returned result, and two logs: evTrace, the calls made by the exchange
\* chain the command ran last, and reqLog, its requests to the vendor.
\* entry is the account as it was handed to the ensure_valid_token that is
\* running or has failed.
IdleTask ==
    [pc |-> "idle", op |-> "none", is_retry |-> FALSE, force_refresh |-> FALSE,
     account |-> NoAccount, updated_account |-> NoAccount, exch |-> NoTriple,
     entry |-> NoAccount,
     token |-> NoToken, expires_in |-> None, seat_count |-> None,
     result |-> NoResult, evTrace |-> << >>, reqLog |-> << >>]

\* ---------------------------------------------------------------- DataStore
\* AuthService::is_token_expired: wall-clock now >= expires_at.
is_token_expired(expires_at) == now >= expires_at

\* DataStore::update_account_tokens: sets the three token fields and saves.
update_account_tokens(t) ==
    /\ store' = [store EXCEPT !.token = t.token,
                              !.refresh_token = t.refresh_token,
                              !.token_expires_at = t.expires_at]
    /\ disk' = store'

\* DataStore::update_account_tokens_no_save: the same, without saving.
update_account_tokens_no_save(t) ==
    /\ store' = [store EXCEPT !.token = t.token,
                              !.refresh_token = t.refresh_token,
                              !.token_expires_at = t.expires_at]
    /\ disk' = disk

\* DataStore::update_account_token: sets token and expiry only, and saves.
update_account_token(t, e) ==
    /\ store' = [store EXCEPT !.token = t, !.token_expires_at = e]
    /\ disk' = store'

\* DataStore::update_account: replaces the stored account by the given one
\* and saves.
update_account(a) ==
    /\ store' = a
    /\ disk' = a

\* DataStore::update_account_no_save: the same, without saving.
update_account_no_save(a) ==
    /\ store' = a
    /\ disk' = disk

\* DataStore::flush: saves the accounts as they are in memory.
flush ==
    /\ disk' = store
    /\ store' = store

\* --------------------------------------------------------- credential exchange
\* AuthService::refresh_token / sign_in and refresh_access_token: a successful
\* exchange answers a fresh (token, refresh_token, expires_at).
NewTriple == [token |-> Token(gen + 1, now),
              refresh_token |-> Token(gen + 1, now),
              expires_at |-> now + TokenTTL]

Exchanged ==
    gen' = gen + 1

\* ------------------------------------------------------------ task plumbing
\* The value a command returned is with its caller at the next step: the
\* finished task is gone.
Retire(t) == IF t.pc = "done" THEN IdleTask ELSE t

Retired == task' = [q \in Procs |-> Retire(task[q])]

Upd(p, t) == task' = [q \in Procs |-> IF q = p THEN t ELSE Retire(task[q])]

\* A command returns r to its caller: its locals are dropped.  The log of
\* the exchange chain, and the account the chain worked on, are kept when
\* the chain's failure ends the command.
ChainErrors == {"get_decrypted_password", "sign_in", "update_account_tokens",
                "update_account_tokens_no_save"}

Returned(t, r) ==
    [IdleTask EXCEPT !.pc = "done", !.op = t.op, !.result = r,
                     !.evTrace = IF r.error \in ChainErrors THEN t.evTrace ELSE << >>,
                     !.account = IF r.error \in ChainErrors THEN t.account
                                 ELSE NoAccount,
                     !.entry = IF r.error \in ChainErrors THEN t.entry
                               ELSE NoAccount,
                     !.reqLog = t.reqLog]

Request(t, r) == Append(t.reqLog, r.status)

\* A task slot is free before its first command and after a command returned;
\* a new command takes the lowest free slot.
Free(p) == task[p].pc \in {"idle", "done"}

CanStart(p) ==
    /\ Free(p)
    /\ \A q \in Procs : q < p => ~Free(q)

\* ------------------------------------------------------------- ensure_valid
\* Where each command continues when ensure_valid_token returned Ok.
AfterEnsure(o) ==
    CASE o = "get_billing"      -> "gb_call"
      [] o = "get_current_user" -> "gcu_read"
      [] o = "reset_credits"    -> "rc_token"
      [] OTHER                  -> "done"

\* The call ensure_valid_token_with_force(store, &mut account, uuid, force).
CallEnsureValid(t, force) ==
    [t EXCEPT !.pc = "ev_check", !.force_refresh = force, !.evTrace = << >>,
              !.entry = t.account]

\* An early-return condition that never holds, for comparison.
NeverCached(a, force) == FALSE

\* An early return that does not ask for the expiry to be present, for
\* comparison.
CachedTokenPresent(a, force) ==
    /\ ~force
    /\ a.token # NoToken
    /\ (a.token_expires_at # None => ~is_token_expired(a.token_expires_at))

\* api_commands.rs:51-54, the condition of the early return.
CachedTokenUsable(a, force) ==
    /\ ~force
    /\ a.token # NoToken
    /\ a.token_expires_at # None
    /\ ~is_token_expired(a.token_expires_at)

\* A check that goes to the sign-in whether or not the account has a
\* refresh token, for comparison.
EnsureValidCheckSignInFirst(p) ==
    /\ task[p].pc = "ev_check"
    /\ Upd(p, [task[p] EXCEPT !.pc =
            IF CachedTokenUsable(task[p].account, task[p].force_refresh)
            THEN AfterEnsure(task[p].op)
            ELSE "ev_pwd"])
    /\ UNCHANGED << now, store, disk, gen, started, batch, svc, pool, codec >>

\* api_commands.rs:50-65 (and 78): return Ok at once, or choose the first
\* step of the exchange chain.
EnsureValidCheck(p) ==
    /\ task[p].pc = "ev_check"
    /\ Upd(p, [task[p] EXCEPT !.pc =
            IF CachedTokenUsable(task[p].account, task[p].force_refresh)
            THEN AfterEnsure(task[p].op)
            ELSE IF task[p].account.refresh_token # NoToken THEN "ev_refresh"
            ELSE "ev_pwd"])
    /\ UNCHANGED << now, store, disk, gen, started, batch, svc, pool, codec >>

\* A refresh that is followed by the sign-in also when it succeeded, for
\* comparison.
EnsureValidRefreshThenSignIn(p) ==
    /\ task[p].pc = "ev_refresh"
    /\ \/ /\ Exchanged
          /\ Upd(p, [task[p] EXCEPT !.pc = "ev_pwd", !.exch = NewTriple,
                        !.evTrace = Append(@, "refresh_ok")])
       \/ /\ Upd(p, [task[p] EXCEPT !.pc = "ev_pwd",
                        !.evTrace = Append(@, "refresh_err")])
          /\ UNCHANGED << gen >>
    /\ UNCHANGED << now, store, disk, started, batch, svc, pool, codec >>

\* api_commands.rs:66-68: auth_service.refresh_token(refresh_token).await
EnsureValidRefresh(p) ==
    /\ task[p].pc = "ev_refresh"
    /\ \/ /\ Exchanged
          /\ Upd(p, [task[p] EXCEPT !.pc = "ev_store", !.exch = NewTriple,
                        !.evTrace = Append(@, "refresh_ok")])
       \/ /\ Upd(p, [task[p] EXCEPT !.pc = "ev_pwd",
                        !.evTrace = Append(@, "refresh_err")])
          /\ UNCHANGED << gen >>
    /\ UNCHANGED << now, store, disk, started, batch, svc, pool, codec >>

\* A sign-in whose failure is passed over, for comparison.
EnsureValidSignInUnchecked(p) ==
    /\ task[p].pc = "ev_pwd"
    /\ \/ /\ Exchanged
          /\ Upd(p, [task[p] EXCEPT !.pc = "ev_store", !.exch = NewTriple,
                        !.evTrace = @ \o << "password_ok", "sign_in_ok" >>])
       \/ /\ Upd(p, [task[p] EXCEPT !.pc = AfterEnsure(task[p].op),
                        !.entry = NoAccount,
                        !.evTrace = @ \o << "password_ok", "sign_in_err" >>])
          /\ UNCHANGED << gen >>
       \/ /\ Upd(p, Returned([task[p] EXCEPT !.evTrace = Append(@, "password_err")],
                             Err("get_decrypted_password")))
          /\ UNCHANGED << gen >>
    /\ UNCHANGED << now, store, disk, started, batch, svc, pool, codec >>

\* A sign-in whose failure starts the refresh again, for comparison.
EnsureValidSignInRetrying(p) ==
    /\ task[p].pc = "ev_pwd"
    /\ \/ /\ Exchanged
          /\ Upd(p, [task[p] EXCEPT !.pc = "ev_store", !.exch = NewTriple,
                        !.evTrace = @ \o << "password_ok", "sign_in_ok" >>])
       \/ /\ Upd(p, [task[p] EXCEPT !.pc = "ev_refresh",
                        !.evTrace = @ \o << "password_ok", "sign_in_err" >>])
          /\ UNCHANGED << gen >>
    /\ UNCHANGED << now, store, disk, started, batch, svc, pool, codec >>

\* api_commands.rs:70-75 and 80-85: store.get_decrypted_password(uuid).await?
\* and, with the password, auth_service.sign_in(email, password).await?
EnsureValidSignIn(p) ==
    /\ task[p].pc = "ev_pwd"
    /\ \/ /\ Exchanged
          /\ Upd(p, [task[p] EXCEPT !.pc = "ev_store", !.exch = NewTriple,
                        !.evTrace = @ \o << "password_ok", "sign_in_ok" >>])
       \/ /\ Upd(p, Returned([task[p] EXCEPT !.evTrace =
                                 @ \o << "password_ok", "sign_in_err" >>],
                             Err("sign_in")))
          /\ UNCHANGED << gen >>
       \/ /\ Upd(p, Returned([task[p] EXCEPT !.evTrace = Append(@, "password_err")],
                             Err("get_decrypted_password")))
          /\ UNCHANGED << gen >>
    /\ UNCHANGED << now, store, disk, started, batch, svc, pool, codec >>

\* A store step whose failure is passed over, for comparison.
EnsureValidStoreUnchecked(p) ==
    /\ task[p].pc = "ev_store"
    /\ \/ /\ update_account_tokens(task[p].exch)
          /\ Upd(p, [task[p] EXCEPT
                 !.pc = AfterEnsure(task[p].op),
                 !.exch = NoTriple,
                 !.entry = NoAccount,
                 !.evTrace = Append(@, "store_ok")])
       \/ /\ Upd(p, [task[p] EXCEPT
                 !.pc = AfterEnsure(task[p].op),
                 !.exch = NoTriple,
                 !.entry = NoAccount,
                 !.evTrace = Append(@, "store_err")])
          /\ UNCHANGED << store, disk >>
    /\ UNCHANGED << now, gen, started, batch, svc, pool, codec >>

\* A store step that assigns the in-memory account before it writes to the
\* store, for comparison.
EnsureValidStoreAssigningFirst(p) ==
    /\ task[p].pc = "ev_store"
    /\ LET t == [task[p] EXCEPT
                 !.account = [@ EXCEPT !.token = task[p].exch.token,
                                       !.refresh_token = task[p].exch.refresh_token,
                                       !.token_expires_at = task[p].exch.expires_at]]
       IN  \/ /\ update_account_tokens(task[p].exch)
              /\ Upd(p, [t EXCEPT
                     !.pc = AfterEnsure(task[p].op),
                     !.exch = NoTriple,
                     !.entry = NoAccount,
                     !.evTrace = Append(@, "store_ok")])
           \/ /\ Upd(p, Returned([t EXCEPT !.evTrace = Append(@, "store_err")],
                                 Err("update_account_tokens")))
              /\ UNCHANGED << store, disk >>
    /\ UNCHANGED << now, gen, started, batch, svc, pool, codec >>

\* api_commands.rs:88-98: store.update_account_tokens(..).await?, then the
\* three assignments to the in-memory account, then Ok(()).
EnsureValidStore(p) ==
    /\ task[p].pc = "ev_store"
    /\ \/ /\ update_account_tokens(task[p].exch)
          /\ Upd(p, [task[p] EXCEPT
                 !.pc = AfterEnsure(task[p].op),
                 !.account = [@ EXCEPT !.token = task[p].exch.token,
                                       !.refresh_token = task[p].exch.refresh_token,
                                       !.token_expires_at = task[p].exch.expires_at],
                 !.exch = NoTriple,
                 !.entry = NoAccount,
                 !.evTrace = Append(@, "store_ok")])
       \/ /\ Upd(p, Returned([task[p] EXCEPT !.evTrace = Append(@, "store_err")],
                             Err("update_account_tokens")))
          /\ UNCHANGED << store, disk >>
    /\ UNCHANGED << now, gen, started, batch, svc, pool, codec >>

\* ------------------------------------------------------------------ commands
\* A command taking the account id is invoked: Uuid::parse_str, then
\* store.get_account(uuid).
Invoke(o) == [IdleTask EXCEPT !.op = o, !.account = store]

\* api_commands.rs:635-647, get_billing up to the call of ensure_valid_token.
GetBillingStart(p) ==
    /\ CanStart(p)
    /\ started < MaxOps
    /\ started' = started + 1
    /\ Upd(p, CallEnsureValid(Invoke("get_billing"), FALSE))
    /\ UNCHANGED << now, store, disk, gen, batch, svc, pool, codec >>

\* windsurf_service.rs:573-612, get_team_billing's result for a response.
get_team_billing(r) ==
    CASE r.status = 0 -> OkResult(FALSE, None)
      [] r.status = 200 /\ r.body = "parsed" -> OkResult(TRUE, None)
      [] r.status = 200 /\ r.body = "garbage" -> OkResult(FALSE, None)
      [] OTHER -> OkResult(FALSE, r.status)

\* api_commands.rs:649-672: token = account.token, the request, and the
\* return of its result.
GetBillingCall(p) ==
    /\ task[p].pc = "gb_call"
    /\ \E r \in Responses :
        LET t == [task[p] EXCEPT !.token = task[p].account.token]
        IN  Upd(p, Returned([t EXCEPT !.reqLog = Request(t, r)],
                            get_team_billing(r)))
    /\ UNCHANGED << now, store, disk, gen, started, batch, svc, pool, codec >>

\* api_commands.rs:970-995, get_current_user: the first pass of
\* get_current_user_internal (is_retry = false) up to ensure_valid.
GetCurrentUserStart(p) ==
    /\ CanStart(p)
    /\ started < MaxOps
    /\ started' = started + 1
    /\ Upd(p, CallEnsureValid(Invoke("get_current_user"), FALSE))
    /\ UNCHANGED << now, store, disk, gen, batch, svc, pool, codec >>

\* api_commands.rs:998-1006: token = account.token, get_settings, and
\* updated_account = store.get_account(uuid).
GetCurrentUserRead(p) ==
    /\ task[p].pc = "gcu_read"
    /\ IF task[p].account.token = NoToken
       THEN Upd(p, Returned(task[p], Err("no_token")))
       ELSE Upd(p, [task[p] EXCEPT !.pc = "gcu_call",
                       !.token = task[p].account.token,
                       !.updated_account = store])
    /\ UNCHANGED << now, store, disk, gen, started, batch, svc, pool, codec >>

\* windsurf_service.rs:871-915 (and 963-1006), the result of get_current_user
\* and of get_plan_status for a response that arrived.
get_current_user(r) ==
    IF r.status = 200 THEN OkResult(TRUE, 200) ELSE OkResult(FALSE, r.status)

\* A retry condition without the is_retry guard, for comparison.
ShouldRetryOnEvery401(res, retried) == res.status_code = 401

\* api_commands.rs:1017-1018 and 1105-1106: the condition of the retry.
ShouldRetry(res, retried) == res.status_code = 401 /\ ~retried

\* For comparison: a retry sent at once after the 401, the forced refresh
\* not awaited.
GetCurrentUserCallRetryingAtOnce(p) ==
    /\ task[p].pc = "gcu_call"
    /\ \E r \in Responses :
        LET t == [task[p] EXCEPT !.reqLog = Request(task[p], r)]
        IN  IF r.status = 0
            THEN /\ Upd(p, Returned(t, Err("network")))
                 /\ UNCHANGED << store, disk >>
            ELSE IF ShouldRetry(get_current_user(r), t.is_retry)
            THEN /\ Upd(p, [t EXCEPT !.is_retry = TRUE, !.force_refresh = TRUE])
                 /\ UNCHANGED << store, disk >>
            ELSE IF r.status = 200 /\ r.body = "parsed"
            THEN \/ /\ update_account(t.updated_account)
                    /\ Upd(p, Returned(t, get_current_user(r)))
                 \/ /\ Upd(p, Returned(t, Err("update_account")))
                    /\ UNCHANGED << store, disk >>
            ELSE /\ Upd(p, Returned(t, get_current_user(r)))
                 /\ UNCHANGED << store, disk >>
    /\ UNCHANGED << now, gen, started, batch, svc, pool, codec >>

\* For comparison: a retry whose ensure_valid_token is not forced.
GetCurrentUserCallRetryingUnforced(p) ==
    /\ task[p].pc = "gcu_call"
    /\ \E r \in Responses :
        LET t == [task[p] EXCEPT !.reqLog = Request(task[p], r)]
        IN  IF r.status = 0
            THEN /\ Upd(p, Returned(t, Err("network")))
                 /\ UNCHANGED << store, disk >>
            ELSE IF ShouldRetry(get_current_user(r), t.is_retry)
            THEN /\ Upd(p, CallEnsureValid(
                         [t EXCEPT !.is_retry = TRUE, !.account = store,
                                   !.updated_account = NoAccount, !.token = NoToken],
                         FALSE))
                 /\ UNCHANGED << store, disk >>
            ELSE IF r.status = 200 /\ r.body = "parsed"
            THEN \/ /\ update_account(t.updated_account)
                    /\ Upd(p, Returned(t, get_current_user(r)))
                 \/ /\ Upd(p, Returned(t, Err("update_account")))
                    /\ UNCHANGED << store, disk >>
            ELSE /\ Upd(p, Returned(t, get_current_user(r)))
                 /\ UNCHANGED << store, disk >>
    /\ UNCHANGED << now, gen, started, batch, svc, pool, codec >>

\* api_commands.rs:1008-1169: the request, then either the recursive call
\* with is_retry = true (its get_account and its call of ensure_valid), or
\* the write-back of updated_account and the return of the result.
GetCurrentUserCall(p) ==
    /\ task[p].pc = "gcu_call"
    /\ \E r \in Responses :
        LET t == [task[p] EXCEPT !.reqLog = Request(task[p], r)]
        IN  IF r.status = 0
            THEN /\ Upd(p, Returned(t, Err("network")))
                 /\ UNCHANGED << store, disk >>
            ELSE IF ShouldRetry(get_current_user(r), t.is_retry)
            THEN /\ Upd(p, CallEnsureValid(
                         [t EXCEPT !.is_retry = TRUE, !.account = store,
                                   !.updated_account = NoAccount, !.token = NoToken],
                         TRUE))
                 /\ UNCHANGED << store, disk >>
            ELSE IF r.status = 200 /\ r.body = "parsed"
            THEN \/ /\ update_account(t.updated_account)
                    /\ Upd(p, Returned(t, get_current_user(r)))
                 \/ /\ Upd(p, Returned(t, Err("update_account")))
                    /\ UNCHANGED << store, disk >>
            ELSE /\ Upd(p, Returned(t, get_current_user(r)))
                 /\ UNCHANGED << store, disk >>
    /\ UNCHANGED << now, gen, started, batch, svc, pool, codec >>

\* api_commands.rs:505-518 (and 773-786): reset_credits up to ensure_valid.
ResetCreditsStart(p) ==
    /\ CanStart(p)
    /\ started < MaxOps
    /\ started' = started + 1
    /\ \E sc \in SeatArgs :
        Upd(p, CallEnsureValid(
                 [Invoke("reset_credits") EXCEPT !.seat_count = sc], FALSE))
    /\ UNCHANGED << now, store, disk, gen, batch, svc, pool, codec >>

\* api_commands.rs:521-528: store.get_decrypted_token(uuid), get_settings.
ResetCreditsToken(p) ==
    /\ task[p].pc = "rc_token"
    /\ IF store.token = NoToken
       THEN Upd(p, Returned(task[p], Err("no_token")))
       ELSE Upd(p, [task[p] EXCEPT !.pc = "rc_call", !.token = store.token])
    /\ UNCHANGED << now, store, disk, gen, started, batch, svc, pool, codec >>

\* The index of the first x in opts, 0 when there is none
\* (iter().position, windsurf_service.rs:1018).
Position(opts, x) ==
    IF \E i \in 1..Len(opts) : opts[i] = x
    THEN CHOOSE i \in 1..Len(opts) :
            opts[i] = x /\ \A j \in 1..(i - 1) : opts[j] # x
    ELSE 0

\* windsurf_service.rs:1011-1029: the seat count reset_credits uses.
SeatCountUsed(sc, last, opts) ==
    IF sc # None THEN sc
    ELSE IF Len(opts) = 0 THEN DefaultSeatCount
    ELSE IF last # None
         THEN IF Position(opts, last) # 0
              THEN opts[(Position(opts, last) % Len(opts)) + 1]
              ELSE opts[1]
         ELSE opts[1]

\* windsurf_service.rs:1034-1049 with update_seats (one attempt, 322-394):
\* the result of WindsurfService::reset_credits for a response.
reset_credits(r) == OkResult(r.status = 200, r.status)

\* api_commands.rs:530-556: the request (one update_seats attempt), then
\* account.last_seat_count = seat_count_used and store.update_account(account).
ResetCreditsCall(p) ==
    /\ task[p].pc = "rc_call"
    /\ \E r \in Responses :
        LET t == [task[p] EXCEPT
                    !.reqLog = Request(task[p], r),
                    !.account = [@ EXCEPT !.last_seat_count =
                        SeatCountUsed(task[p].seat_count, @, SeatCountOptions)]]
        IN  \/ /\ update_account(t.account)
               /\ Upd(p, Returned(t, reset_credits(r)))
            \/ /\ Upd(p, Returned(t, Err("update_account")))
               /\ UNCHANGED << store, disk >>
    /\ UNCHANGED << now, gen, started, batch, svc, pool, codec >>

\* ------------------------------------------------------------ switch_account
\* switch_account_commands.rs:244-305: get_account, the refresh-token check,
\* and the choice between the cached token and a refresh.
SwitchAccountStart(p) ==
    /\ CanStart(p)
    /\ started < MaxOps
    /\ started' = started + 1
    /\ LET t == Invoke("switch_account")
           a == t.account
       IN  IF a.refresh_token = NoToken
           THEN Upd(p, Returned(t, OkResult(FALSE, None)))
           ELSE IF /\ a.token # NoToken
                   /\ a.token_expires_at # None
                   /\ a.token_expires_at > now + SwitchBuffer
           THEN Upd(p, [t EXCEPT !.pc = "sw_login", !.token = a.token,
                           !.expires_in = a.token_expires_at - now])
           ELSE Upd(p, [t EXCEPT !.pc = "sw_refresh"])
    /\ UNCHANGED << now, store, disk, gen, batch, svc, pool, codec >>

\* switch_account_commands.rs:279-304: refresh_access_token(refresh_token);
\* of its answer the command keeps access_token and expires_in.
SwitchAccountRefresh(p) ==
    /\ task[p].pc = "sw_refresh"
    /\ \/ /\ Exchanged
          /\ Upd(p, [task[p] EXCEPT !.pc = "sw_login",
                        !.token = NewTriple.token, !.expires_in = TokenTTL])
       \/ /\ Upd(p, Returned(task[p], OkResult(FALSE, None)))
          /\ UNCHANGED << gen >>
    /\ UNCHANGED << now, store, disk, started, batch, svc, pool, codec >>

\* switch_account_commands.rs:307-367: get_auth_token and the callback
\* (either may fail and end the command), then expires_at = now + expires_in
\* and update_account_token, whose failure is only logged.
SwitchAccountLogin(p) ==
    /\ task[p].pc = "sw_login"
    /\ \/ /\ Upd(p, Returned(task[p], OkResult(FALSE, None)))
          /\ UNCHANGED << store, disk >>
       \/ /\ update_account_token(task[p].token, now + task[p].expires_in)
          /\ Upd(p, Returned(task[p], OkResult(TRUE, None)))
       \/ /\ Upd(p, Returned(task[p], OkResult(TRUE, None)))
          /\ UNCHANGED << store, disk >>
    /\ UNCHANGED << now, gen, started, batch, svc, pool, codec >>

\* ------------------------------------------------------ batch_refresh_tokens
\* The ids a batch is given: the account's id, or a string that is no UUID.
Ids == {"account", "invalid"}

IdLists == UNION { [1..n -> Ids] : n \in 1..MaxBatch }

\* Settings::concurrent_limit values the model draws from: 0 is raised to 1,
\* the default 5 exceeds MaxBatch and so behaves as the unlimited setting.
ConcurrentLimits == {0}

Max(a, b) == IF a > b THEN a ELSE b

NoBatch == [state |-> "none", ids |-> << >>, next |-> 1, in_flight |-> 0,
            max_concurrent |-> 0, results |-> << >>]

\* api_commands.rs:1343-1347: the concurrency of the batch.
max_concurrent(unlimited, limit, ids) ==
    IF unlimited THEN Len(ids) ELSE Max(limit, 1)

\* api_commands.rs:1332-1349: batch_refresh_tokens is invoked (one batch in
\* a behaviour).
BatchStart ==
    /\ batch.state = "none"
    /\ started < MaxOps
    /\ started' = started + 1
    /\ \E ids \in IdLists, unlimited \in BOOLEAN, limit \in ConcurrentLimits :
        batch' = [NoBatch EXCEPT !.state = "running", !.ids = ids,
                     !.max_concurrent = max_concurrent(unlimited, limit, ids)]
    /\ Retired
    /\ UNCHANGED << now, store, disk, gen, svc, pool, codec >>

\* buffer_unordered(max_concurrent) may take the next item of the stream.
CanTake ==
    /\ batch.state = "running"
    /\ batch.next <= Len(batch.ids)
    /\ batch.in_flight < batch.max_concurrent

Completed(id, ok) ==
    [batch EXCEPT !.results = Append(@, [id |-> id, success |-> ok])]

\* api_commands.rs:1367-1373: an id that is no UUID fails at once.
BatchItemInvalid ==
    /\ CanTake
    /\ batch.ids[batch.next] = "invalid"
    /\ batch' = [Completed("invalid", FALSE) EXCEPT !.next = @ + 1]
    /\ Retired
    /\ UNCHANGED << now, store, disk, gen, started, svc, pool, codec >>

\* api_commands.rs:1354-1355 and 1408-1414: the item calls
\* refresh_token_internal, which reads the account and picks the exchange.
BatchItemStart(p) ==
    /\ CanTake
    /\ batch.ids[batch.next] = "account"
    /\ CanStart(p)
    /\ batch' = [batch EXCEPT !.next = @ + 1, !.in_flight = @ + 1]
    /\ Upd(p, [Invoke("refresh_token_internal") EXCEPT !.pc =
            IF store.refresh_token # NoToken THEN "rti_refresh" ELSE "rti_pwd"])
    /\ UNCHANGED << now, store, disk, gen, started, svc, pool, codec >>

\* The item's future completes with r (api_commands.rs:1355-1366).
ItemReturned(p, t, r) ==
    /\ Upd(p, Returned(t, r))
    /\ batch' = [Completed("account", r.ok) EXCEPT !.in_flight = @ - 1]

\* api_commands.rs:1415-1416: auth_service.refresh_token(ref_token).await
RefreshTokenInternalRefresh(p) ==
    /\ task[p].pc = "rti_refresh"
    /\ \/ /\ Exchanged
          /\ Upd(p, [task[p] EXCEPT !.pc = "rti_store", !.exch = NewTriple,
                        !.evTrace = Append(@, "refresh_ok")])
       \/ /\ Upd(p, [task[p] EXCEPT !.pc = "rti_pwd",
                        !.evTrace = Append(@, "refresh_err")])
          /\ UNCHANGED << gen >>
    /\ UNCHANGED << now, store, disk, started, batch, svc, pool, codec >>

\* api_commands.rs:1418-1419 and 1423-1424: get_decrypted_password, sign_in.
RefreshTokenInternalSignIn(p) ==
    /\ task[p].pc = "rti_pwd"
    /\ \/ /\ Exchanged
          /\ Upd(p, [task[p] EXCEPT !.pc = "rti_store", !.exch = NewTriple,
                        !.evTrace = @ \o << "password_ok", "sign_in_ok" >>])
          /\ UNCHANGED batch
       \/ /\ ItemReturned(p, [task[p] EXCEPT !.evTrace =
                                 @ \o << "password_ok", "sign_in_err" >>],
                          Err("sign_in"))
          /\ UNCHANGED << gen >>
       \/ /\ ItemReturned(p, [task[p] EXCEPT !.evTrace = Append(@, "password_err")],
                          Err("get_decrypted_password"))
          /\ UNCHANGED << gen >>
    /\ UNCHANGED << now, store, disk, started, svc, pool, codec >>

\* api_commands.rs:1427-1434, save_immediately = false: the new tokens go to
\* the store without a save.
RefreshTokenInternalStore(p) ==
    /\ task[p].pc = "rti_store"
    /\ \/ /\ update_account_tokens_no_save(task[p].exch)
          /\ Upd(p, [task[p] EXCEPT !.pc = "rti_read", !.token = task[p].exch.token,
                        !.exch = NoTriple,
                        !.evTrace = Append(@, "store_ok")])
          /\ UNCHANGED batch
       \/ /\ ItemReturned(p, task[p], Err("update_account_tokens_no_save"))
          /\ UNCHANGED << store, disk >>
    /\ UNCHANGED << now, gen, started, svc, pool, codec >>

\* api_commands.rs:1438: updated_account = store.get_account(uuid).
RefreshTokenInternalRead(p) ==
    /\ task[p].pc = "rti_read"
    /\ Upd(p, [task[p] EXCEPT !.pc = "rti_call", !.updated_account = store])
    /\ UNCHANGED << now, store, disk, gen, started, batch, svc, pool, codec >>

\* api_commands.rs:1440-1545: the quota request (its failure is ignored),
\* then store.update_account_no_save(updated_account) and the item's result.
RefreshTokenInternalCall(p) ==
    /\ task[p].pc = "rti_call"
    /\ \E r \in Responses :
        LET t == [task[p] EXCEPT !.reqLog = Request(task[p], r)]
        IN  \/ /\ update_account_no_save(t.updated_account)
               /\ ItemReturned(p, t, OkResult(TRUE, None))
            \/ /\ ItemReturned(p, t, Err("update_account_no_save"))
               /\ UNCHANGED << store, disk >>
    /\ UNCHANGED << now, gen, started, svc, pool, codec >>

\* A batch that returns its results without the flush, for comparison.
BatchFlushSkipped ==
    /\ batch.state = "running"
    /\ batch.next > Len(batch.ids)
    /\ batch.in_flight = 0
    /\ batch' = [batch EXCEPT !.state = "returned"]
    /\ Retired
    /\ UNCHANGED << now, store, disk, gen, started, svc, pool, codec >>

\* api_commands.rs:1378-1398: every item completed; store.flush() and the
\* batch result, or the Err of a failed flush.
BatchFlush ==
    /\ batch.state = "running"
    /\ batch.next > Len(batch.ids)
    /\ batch.in_flight = 0
    /\ \/ /\ flush
          /\ batch' = [batch EXCEPT !.state = "returned"]
       \/ /\ batch' = [batch EXCEPT !.state = "failed"]
          /\ UNCHANGED << store, disk >>
    /\ Retired
    /\ UNCHANGED << now, gen, started, svc, pool, codec >>

\* ------------------------------------------------------------ WindsurfService
\* What the vendor may answer to one request of the service: a status with a
\* body that is empty ("none"), decodes ("parsed"), decodes to a message
\* whose success member is false ("refused"), or does not decode
\* ("garbage"); status 0 is a transport failure, with no response.
AllResponses ==
    { [status |-> st, body |-> b] :
          st \in {200, 204}, b \in {"none", "parsed", "refused", "garbage"} }
    \cup { [status |-> st, body |-> b] : st \in {401, 500}, b \in {"none", "garbage"} }
    \cup { [status |-> 0, body |-> "none"] }

\* retry_times values the model draws from (an i32: it may be negative).
RetryTimes == (0 - 1)..MaxRetry

\* The raw_response member of a result: how the body's bytes are carried.
NoRaw == [enc |-> "absent", body |-> "none"]
Raw(enc, body) == [enc |-> enc, body |-> body]

\* AppResult<serde_json::Value>: Err(AppError), or Ok of a json object with
\* its success, status_code, error (or parse_error) and raw_response members.
NoReply == [ok |-> FALSE, success |-> FALSE, status_code |-> None,
            error |-> "none", raw_response |-> NoRaw]
ServiceErr(e) == [NoReply EXCEPT !.error = e]
Reply(success, code, error, raw) ==
    [ok |-> TRUE, success |-> success, status_code |-> code, error |-> error,
     raw_response |-> raw]

NoService ==
    [pc |-> "idle", op |-> "none", retry_times |-> 0, i |-> 0,
     success |-> FALSE, attempts |-> << >>, sent |-> 0, answers |-> << >>,
     delays |-> << >>, opts |-> << >>, last |-> None, calls |-> << >>,
     decoded |-> FALSE, result |-> NoReply]

\* A loop whose body runs once before its bound is tested, for comparison.
UpdateSeatsCallTestingAfter ==
    /\ svc.pc \in {"idle", "returned"}
    /\ \E n \in RetryTimes, r \in AllResponses :
         svc' = IF 0 < n
                THEN [NoService EXCEPT !.op = "update_seats",
                         !.retry_times = n, !.pc = "us_loop"]
                ELSE [NoService EXCEPT !.op = "update_seats",
                         !.retry_times = n, !.pc = "returned", !.sent = 1,
                         !.answers = << r >>,
                         !.attempts = << [attempt |-> 1,
                                          status_code |-> r.status,
                                          raw_response |-> r.body,
                                          error |-> "none"] >>]
    /\ UNCHANGED << now, store, disk, gen, started, task, batch, pool, codec >>

\* windsurf_service.rs:291-297: update_seats is called; `for i in
\* 0..retry_times` has no iteration when retry_times <= 0.
UpdateSeatsCall ==
    /\ svc.pc \in {"idle", "returned"}
    /\ \E n \in RetryTimes :
         svc' = [NoService EXCEPT !.op = "update_seats", !.retry_times = n,
                    !.pc = IF 0 < n THEN "us_loop" ELSE "returned"]
    /\ UNCHANGED << now, store, disk, gen, started, task, batch, pool, codec >>

\* A classification that takes every 200 or 204 as a success, whatever its
\* body says, for comparison.
AttemptSuccessIgnoringBody(r, success) ==
    IF r.status \in {200, 204} THEN TRUE ELSE success

\* windsurf_service.rs:326-353: the value of `success` after a response.
AttemptSuccess(r, success) ==
    IF r.status \in {200, 204}
    THEN IF r.body = "none" THEN TRUE
         ELSE IF r.body = "refused" THEN FALSE
         ELSE TRUE
    ELSE success

\* windsurf_service.rs:356-371 and 379-385: the AttemptResult pushed for
\* attempt i (0-based) on the answer r.
AttemptResult(i, r) ==
    IF r.status = 0
    THEN [attempt |-> i + 1, status_code |-> None, raw_response |-> "absent",
          error |-> "transport"]
    ELSE [attempt |-> i + 1, status_code |-> r.status,
          raw_response |->
              IF r.status \in {200, 204} /\ r.body \in {"parsed", "refused"}
              THEN "json" ELSE r.body,
          error |-> "none"]

\* A loop that records no AttemptResult for a transport failure, for
\* comparison.
UpdateSeatsAttemptUnrecorded ==
    /\ svc.pc = "us_loop"
    /\ svc.i < svc.retry_times
    /\ \E r \in AllResponses :
         LET ok == IF r.status = 0 THEN svc.success
                   ELSE AttemptSuccess(r, svc.success)
         IN  svc' = [svc EXCEPT
                       !.sent = @ + 1,
                       !.answers = Append(@, r),
                       !.attempts = IF r.status = 0 THEN @
                                    ELSE Append(@, AttemptResult(svc.i, r)),
                       !.success = ok,
                       !.delays = IF ~ok /\ svc.i < svc.retry_times - 1
                                  THEN Append(@, svc.i + 1) ELSE @,
                       !.i = @ + 1,
                       !.pc = IF ok \/ svc.i + 1 >= svc.retry_times
                              THEN "returned" ELSE "us_loop"]
    /\ UNCHANGED << now, store, disk, gen, started, task, batch, pool, codec >>

\* A loop that sleeps after every attempt that did not succeed, the last
\* one included, for comparison.
UpdateSeatsAttemptAlwaysDelaying ==
    /\ svc.pc = "us_loop"
    /\ svc.i < svc.retry_times
    /\ \E r \in AllResponses :
         LET ok == IF r.status = 0 THEN svc.success
                   ELSE AttemptSuccess(r, svc.success)
         IN  svc' = [svc EXCEPT
                       !.sent = @ + 1,
                       !.answers = Append(@, r),
                       !.attempts = Append(@, AttemptResult(svc.i, r)),
                       !.success = ok,
                       !.delays = IF ~ok THEN Append(@, svc.i + 1) ELSE @,
                       !.i = @ + 1,
                       !.pc = IF ok \/ svc.i + 1 >= svc.retry_times
                              THEN "returned" ELSE "us_loop"]
    /\ UNCHANGED << now, store, disk, gen, started, task, batch, pool, codec >>

\* A loop that keeps only the AttemptResult of its latest request, for
\* comparison.
UpdateSeatsAttemptOverwriting ==
    /\ svc.pc = "us_loop"
    /\ svc.i < svc.retry_times
    /\ \E r \in AllResponses :
         LET ok == IF r.status = 0 THEN svc.success
                   ELSE AttemptSuccess(r, svc.success)
         IN  svc' = [svc EXCEPT
                       !.sent = @ + 1,
                       !.answers = Append(@, r),
                       !.attempts = << AttemptResult(svc.i, r) >>,
                       !.success = ok,
                       !.delays = IF ~ok /\ svc.i < svc.retry_times - 1
                                  THEN Append(@, svc.i + 1) ELSE @,
                       !.i = @ + 1,
                       !.pc = IF ok \/ svc.i + 1 >= svc.retry_times
                              THEN "returned" ELSE "us_loop"]
    /\ UNCHANGED << now, store, disk, gen, started, task, batch, pool, codec >>

\* windsurf_service.rs:297-404: one iteration of the loop: the request, the
\* push of its AttemptResult, and either the break on success, the end of
\* the range, or (after the 1 s sleep) the next iteration.
UpdateSeatsAttempt ==
    /\ svc.pc = "us_loop"
    /\ svc.i < svc.retry_times
    /\ \E r \in AllResponses :
         LET ok == IF r.status = 0 THEN svc.success
                   ELSE AttemptSuccess(r, svc.success)
         IN  svc' = [svc EXCEPT
                       !.sent = @ + 1,
                       !.answers = Append(@, r),
                       !.attempts = Append(@, AttemptResult(svc.i, r)),
                       !.success = ok,
                       !.delays = IF ~ok /\ svc.i < svc.retry_times - 1
                                  THEN Append(@, svc.i + 1) ELSE @,
                       !.i = @ + 1,
                       !.pc = IF ok \/ svc.i + 1 >= svc.retry_times
                              THEN "returned" ELSE "us_loop"]
    /\ UNCHANGED << now, store, disk, gen, started, task, batch, pool, codec >>

\* Whether the proto parser decodes the body: a "parsed" or "refused" body
\* decodes, a "garbage" body does not, and what the parsers make of an empty
\* body is not fixed by the service.
Decodes(r) ==
    IF r.body \in {"parsed", "refused"} THEN {TRUE}
    ELSE IF r.body = "garbage" THEN {FALSE}
    ELSE BOOLEAN

\* windsurf_service.rs:573-612: what get_team_billing returns.
get_team_billing_value(r, d) ==
    IF r.status = 0 THEN Reply(FALSE, None, "transport", NoRaw)
    ELSE IF r.status = 200 /\ r.body # "none"
    THEN IF d THEN Reply(TRUE, None, "none", NoRaw)
         ELSE Reply(FALSE, None, "parse", Raw("base64", r.body))
    ELSE Reply(FALSE, r.status, "invalid", NoRaw)

\* windsurf_service.rs:459-525: what get_team_credit_entries returns.
get_team_credit_entries_value(r, d) ==
    IF r.status = 0 THEN Reply(FALSE, None, "transport", NoRaw)
    ELSE IF r.status = 200
    THEN IF r.body = "none" THEN Reply(TRUE, None, "none", NoRaw)
         ELSE IF d THEN Reply(TRUE, None, "none", NoRaw)
         ELSE Reply(FALSE, None, "parse", Raw("data_url", r.body))
    ELSE Reply(FALSE, r.status, "http", NoRaw)

\* windsurf_service.rs:868-915: what get_current_user returns; `?` turns a
\* transport failure into Err, the decode error is in parse_error.
get_current_user_value(r, d) ==
    IF r.status = 0 THEN ServiceErr("transport")
    ELSE IF r.status = 200
    THEN IF d THEN Reply(TRUE, 200, "none", NoRaw)
         ELSE Reply(TRUE, 200, "parse", Raw("utf8", r.body))
    ELSE Reply(FALSE, r.status, "http", Raw("utf8", r.body))

\* windsurf_service.rs:960-1006: what get_plan_status returns.
get_plan_status_value(r, d) ==
    IF r.status = 0 THEN ServiceErr("transport")
    ELSE IF r.status = 200
    THEN IF d THEN Reply(TRUE, 200, "none", NoRaw)
         ELSE Reply(TRUE, 200, "parse", Raw("utf8", r.body))
    ELSE Reply(FALSE, r.status, "http", Raw("utf8", r.body))

\* windsurf_service.rs:1179-1251: what subscribe_to_plan returns; only a
\* decoded message with a Stripe link ("parsed") is a success.
subscribe_to_plan_value(r, d) ==
    IF r.status = 0 THEN ServiceErr("transport")
    ELSE IF r.status = 200
    THEN IF d THEN IF r.body = "parsed" THEN Reply(TRUE, 200, "none", NoRaw)
                   ELSE Reply(FALSE, 200, "no_link", NoRaw)
         ELSE Reply(FALSE, 200, "parse", NoRaw)
    ELSE Reply(FALSE, r.status, "http", Raw("utf8", r.body))

ServiceOps ==
    {"get_team_billing", "get_team_credit_entries", "get_current_user",
     "get_plan_status", "subscribe_to_plan"}

ServiceValue(op, r, d) ==
    CASE op = "get_team_billing" -> get_team_billing_value(r, d)
      [] op = "get_team_credit_entries" -> get_team_credit_entries_value(r, d)
      [] op = "get_current_user" -> get_current_user_value(r, d)
      [] op = "get_plan_status" -> get_plan_status_value(r, d)
      [] op = "subscribe_to_plan" -> subscribe_to_plan_value(r, d)

\* One call of a decoding operation of the service: the request, the answer
\* and the returned value.
ServiceCall ==
    /\ svc.pc \in {"idle", "returned"}
    /\ \E op \in ServiceOps, r \in AllResponses :
         \E d \in Decodes(r) :
             svc' = [NoService EXCEPT !.op = op, !.pc = "returned",
                        !.sent = 1, !.answers = << r >>, !.decoded = d,
                        !.result = ServiceValue(op, r, d)]
    /\ UNCHANGED << now, store, disk, gen, started, task, batch, pool, codec >>

\* The seat-count rotation over repeated calls of reset_credits on one
\* account, one call after the other.  Settings::seat_count_options is a
\* Vec<i32> (config.rs:75, by default 18, 19, 20): lists with and without
\* repetitions, and the empty one.
OptionLists ==
    { << >>, << 18 >>, << 18, 19, 20 >>, << 20, 19 >>, << 18, 18, 19 >> }

\* Account::last_seat_count before the first call: none, an option, or a
\* number that is no option.
LastSeatCounts == {None, 18, 20, 25}

MaxCalls == 4

\* The account and the settings as the calls of reset_credits find them.
ResetCreditsSettings ==
    /\ svc.pc \in {"idle", "returned"}
    /\ \E opts \in OptionLists, last \in LastSeatCounts :
         svc' = [NoService EXCEPT !.op = "reset_credits", !.pc = "rc_ready",
                    !.opts = opts, !.last = last]
    /\ UNCHANGED << now, store, disk, gen, started, task, batch, pool, codec >>

\* api_commands.rs:526-542 with windsurf_service.rs:1009-1050: one call of
\* the command: the seat count chosen from the argument, the account's
\* last_seat_count and the options; the one attempt of update_seats, whose
\* outcome does not change the Ok of the service; and last_seat_count =
\* seat_count_used written by store.update_account, whose failure ends the
\* command with an Err.
ResetCreditsRepeated ==
    /\ svc.pc = "rc_ready"
    /\ Len(svc.calls) < MaxCalls
    /\ \E sc \in SeatArgs, r \in AllResponses, stored \in BOOLEAN :
         LET used == SeatCountUsed(sc, svc.last, svc.opts)
         IN  svc' = [svc EXCEPT
                       !.sent = @ + 1,
                       !.success = r.status # 0 /\ AttemptSuccess(r, FALSE),
                       !.last = IF stored THEN used ELSE @,
                       !.calls = Append(@, [seat_count |-> sc, used |-> used,
                                            before |-> svc.last,
                                            stored |-> stored])]
    /\ UNCHANGED << now, store, disk, gen, started, task, batch, pool, codec >>

\* ------------------------------------------------------------ batch executor
\* batch_reset_credits and batch_refresh_tokens seen as what they share: a
\* stream of per-id futures run by buffer_unordered(c) and collected.  The
\* work of one item is reduced to the Result its *_internal call returns.

\* The sixfold list fills the five places of batch_reset_credits.
\* Two UUIDs and a string that is none.
PoolIds == Ids \cup {"account-b"}

PoolIdLists ==
    UNION { [1..n -> PoolIds] : n \in 0..MaxIds }
        \cup { [k \in 1..(MAX_CONCURRENT + 1) |-> "account"] }

PoolLimits == {0, 1, 2}

\* What reset_credits_internal / refresh_token_internal return for an item.
ItemResults ==
    { [ok |-> TRUE,  error |-> "none"],
      [ok |-> FALSE, error |-> "store"],
      [ok |-> FALSE, error |-> "exchange"] }

NoResponse == [ok |-> FALSE, error |-> "none", success_count |-> 0,
               total_count |-> 0]

NoPool == [state |-> "none", cmd |-> "none", ids |-> << >>,
           unlimited |-> FALSE, limit |-> 0, max |-> 0, next |-> 1,
           stream_done |-> FALSE, in_flight |-> {}, touched |-> {},
           delayed |-> {}, results |-> << >>, flushes |-> 0,
           response |-> NoResponse]

\* One entry of the collected results.
Entry(id, success, error) == [id |-> id, success |-> success, error |-> error]

\* api_commands.rs:1309-1314, 1383-1385: the entries that report success.
SuccessCount(results) ==
    Cardinality({ k \in DOMAIN results : results[k].success })

BatchResetCreditsStart ==
    /\ pool.state = "none"
    /\ \E ids \in PoolIdLists :
         pool' = [NoPool EXCEPT !.state = "running",
                                !.cmd = "batch_reset_credits",
                                !.ids = ids, !.max = MAX_CONCURRENT]
    /\ UNCHANGED << now, store, disk, gen, started, task, batch, svc, codec >>

\* get_settings may fail, which ends the command before the stream is built.
BatchRefreshTokensStart ==
    /\ pool.state = "none"
    /\ \E ids \in PoolIdLists, unlimited \in BOOLEAN, limit \in PoolLimits,
          settings_ok \in BOOLEAN :
         pool' = IF settings_ok
                 THEN [NoPool EXCEPT !.state = "running",
                                     !.cmd = "batch_refresh_tokens",
                                     !.ids = ids, !.unlimited = unlimited,
                                     !.limit = limit,
                                     !.max = max_concurrent(unlimited, limit, ids)]
                 ELSE [NoPool EXCEPT !.state = "failed",
                                     !.cmd = "batch_refresh_tokens",
                                     !.ids = ids, !.unlimited = unlimited,
                                     !.limit = limit,
                                     !.response = [NoResponse EXCEPT !.error = "store"]]
    /\ UNCHANGED << now, store, disk, gen, started, task, batch, svc, codec >>

\* For comparison: a stream that starts every future it is offered.
BufferUnorderedPullUnbounded ==
    /\ pool.state = "running"
    /\ ~pool.stream_done
    /\ pool' = IF pool.next <= Len(pool.ids)
               THEN [pool EXCEPT !.in_flight = @ \cup {pool.next},
                                 !.next = @ + 1]
               ELSE [pool EXCEPT !.stream_done = TRUE]
    /\ UNCHANGED << now, store, disk, gen, started, task, batch, svc, codec >>

\* buffer_unordered(max) polls the stream of futures only while fewer than
\* max of them are in progress; the stream is done once it was polled past
\* its last id.
BufferUnorderedPull ==
    /\ pool.state = "running"
    /\ ~pool.stream_done
    /\ Cardinality(pool.in_flight) < pool.max
    /\ pool' = IF pool.next <= Len(pool.ids)
               THEN [pool EXCEPT !.in_flight = @ \cup {pool.next},
                                 !.next = @ + 1]
               ELSE [pool EXCEPT !.stream_done = TRUE]
    /\ UNCHANGED << now, store, disk, gen, started, task, batch, svc, codec >>

\* For comparison: the index delay taken before the id is parsed.
BatchItemInvalidUuidDelayed ==
    /\ pool.state = "running"
    /\ \E i \in pool.in_flight :
        /\ pool.ids[i] = "invalid"
        /\ pool' = [pool EXCEPT
               !.in_flight = @ \ {i},
               !.delayed = IF pool.cmd = "batch_reset_credits" /\ i > 1
                           THEN @ \cup {i} ELSE @,
               !.results = Append(@, Entry(pool.ids[i], FALSE, "Invalid UUID"))]
    /\ UNCHANGED << now, store, disk, gen, started, task, batch, svc, codec >>

\* The future of an id that is no UUID is ready at its first poll.
BatchItemInvalidUuid ==
    /\ pool.state = "running"
    /\ \E i \in pool.in_flight :
        /\ pool.ids[i] = "invalid"
        /\ pool' = [pool EXCEPT
               !.in_flight = @ \ {i},
               !.results = Append(@, Entry(pool.ids[i], FALSE, "Invalid UUID"))]
    /\ UNCHANGED << now, store, disk, gen, started, task, batch, svc, codec >>

\* For comparison: the first Err of an item ends the batch with that error.
BatchItemRunAborting ==
    /\ pool.state = "running"
    /\ \E i \in pool.in_flight, r \in ItemResults :
        /\ pool.ids[i] # "invalid"
        /\ pool' = IF r.ok
                   THEN [pool EXCEPT
                           !.in_flight = @ \ {i},
                           !.touched = @ \cup {i},
                           !.delayed = IF pool.cmd = "batch_reset_credits" /\ i > 1
                                       THEN @ \cup {i} ELSE @,
                           !.results = Append(@, Entry(pool.ids[i], r.ok, r.error))]
                   ELSE [pool EXCEPT
                           !.state = "failed",
                           !.response = [NoResponse EXCEPT !.error = r.error]]
    /\ UNCHANGED << now, store, disk, gen, started, task, batch, svc, codec >>

\* For comparison: an item whose call fails leaves no entry.
BatchItemRunDroppingErrors ==
    /\ pool.state = "running"
    /\ \E i \in pool.in_flight, r \in ItemResults :
        /\ pool.ids[i] # "invalid"
        /\ pool' = [pool EXCEPT
               !.in_flight = @ \ {i},
               !.touched = @ \cup {i},
               !.delayed = IF pool.cmd = "batch_reset_credits" /\ i > 1
                           THEN @ \cup {i} ELSE @,
               !.results = IF r.ok THEN Append(@, Entry(pool.ids[i], r.ok, r.error))
                           ELSE @]
    /\ UNCHANGED << now, store, disk, gen, started, task, batch, svc, codec >>

\* The future of a UUID: batch_reset_credits sleeps 200 ms times the index
\* for every item but the first, then the *_internal call reads the store,
\* exchanges and calls the API; Ok gives a success entry, Err a failed one.
BatchItemRun ==
    /\ pool.state = "running"
    /\ \E i \in pool.in_flight, r \in ItemResults :
        /\ pool.ids[i] # "invalid"
        /\ pool' = [pool EXCEPT
               !.in_flight = @ \ {i},
               !.touched = @ \cup {i},
               !.delayed = IF pool.cmd = "batch_reset_credits" /\ i > 1
                           THEN @ \cup {i} ELSE @,
               !.results = Append(@, Entry(pool.ids[i], r.ok, r.error))]
    /\ UNCHANGED << now, store, disk, gen, started, task, batch, svc, codec >>

\* collect() ends when the stream is done and no future is in progress.
Collected == pool.state = "running" /\ pool.stream_done /\ pool.in_flight = {}

\* For comparison: success_count taken from the entries without an error.
BatchResetCreditsReturnCountingNoError ==
    /\ Collected
    /\ pool.cmd = "batch_reset_credits"
    /\ pool' = [pool EXCEPT
           !.state = "returned",
           !.response = [ok |-> TRUE, error |-> "none",
                         success_count |->
                             Cardinality({ k \in DOMAIN pool.results :
                                             pool.results[k].error # "Invalid UUID" }),
                         total_count |-> Len(pool.results)]]
    /\ UNCHANGED << now, store, disk, gen, started, task, batch, svc, codec >>

BatchResetCreditsReturn ==
    /\ Collected
    /\ pool.cmd = "batch_reset_credits"
    /\ pool' = [pool EXCEPT
           !.state = "returned",
           !.response = [ok |-> TRUE, error |-> "none",
                         success_count |-> SuccessCount(pool.results),
                         total_count |-> Len(pool.results)]]
    /\ UNCHANGED << now, store, disk, gen, started, task, batch, svc, codec >>

\* For comparison: a flush that waits for the end of the stream of ids but
\* not for the futures in progress.
BatchRefreshTokensReturnNotWaiting ==
    /\ pool.state = "running"
    /\ pool.stream_done
    /\ pool.cmd = "batch_refresh_tokens"
    /\ \E flush_ok \in BOOLEAN :
         pool' = IF flush_ok
                 THEN [pool EXCEPT
                         !.state = "returned",
                         !.flushes = @ + 1,
                         !.response = [ok |-> TRUE, error |-> "none",
                                       success_count |-> SuccessCount(pool.results),
                                       total_count |-> Len(pool.results)]]
                 ELSE [pool EXCEPT
                         !.state = "failed",
                         !.flushes = @ + 1,
                         !.response = [NoResponse EXCEPT !.error = "flush"]]
    /\ UNCHANGED << now, store, disk, gen, started, task, batch, svc, codec >>

\* batch_refresh_tokens flushes the store once and fails if the flush does;
\* flushes counts the calls of store.flush().
BatchRefreshTokensReturn ==
    /\ Collected
    /\ pool.cmd = "batch_refresh_tokens"
    /\ \E flush_ok \in BOOLEAN :
         pool' = IF flush_ok
                 THEN [pool EXCEPT
                         !.state = "returned",
                         !.flushes = @ + 1,
                         !.response = [ok |-> TRUE, error |-> "none",
                                       success_count |-> SuccessCount(pool.results),
                                       total_count |-> Len(pool.results)]]
                 ELSE [pool EXCEPT
                         !.state = "failed",
                         !.flushes = @ + 1,
                         !.response = [NoResponse EXCEPT !.error = "flush"]]
    /\ UNCHANGED << now, store, disk, gen, started, task, batch, svc, codec >>

\* ------------------------------------------------------------- protobuf codec
\* The hand-written protobuf encoders of windsurf_service.rs and the pair
\* serialize_protobuf_string / deserialize_protobuf_response of
\* switch_account_commands.rs.  A byte is a number in 0..255, a Vec<u8> and a
\* string's bytes are sequences of bytes.

\* `x as u8`.
AsU8(x) == x % 256

\* Values on both sides of every byte-count boundary of a varint.
VarintValues ==
    (0..MaxValue)
        \cup {16383, 16384, 16385, 2097151, 2097152, 268435455, 268435456,
              2147483647}

\* Before a function is applied; each behaviour applies one function to one
\* argument.
NoCodec == [op |-> "none", field_num |-> 0, value |-> 0, text |-> << >>,
            bytes |-> << >>, scalars |-> << >>, fields |-> << >>,
            checks |-> FALSE,
            outcome |-> [kind |-> "none", value |-> << >>, tags |-> << >>,
                         overflow |-> FALSE]]

\* A length-delimited field the builder wrote: its field number, its
\* payload and the position of its tag in the body.
Field(n, value, pos) == [n |-> n, value |-> value, pos |-> pos]

\* A scalar the builder wrote: its field number, its value and the position
\* of its tag in the body.
Scalar(n, v, pos) == [n |-> n, v |-> v, pos |-> pos]

\* For comparison: the two-byte length encoding of build_request_body.
encode_varint_two_bytes(value) ==
    IF value < 128 THEN << AsU8(value) >>
    ELSE << AsU8((value % 128) + 128), AsU8(value \div 128) >>

\* windsurf_service.rs:2535-2550.
RECURSIVE encode_varint(_)
encode_varint(value) ==
    LET byte == value % 128
        val  == value \div 128
    IN  IF val # 0 THEN << byte + 128 >> \o encode_varint(val)
        ELSE << byte >>

EncodeVarint ==
    /\ codec.op = "none"
    /\ \E v \in VarintValues :
         codec' = [NoCodec EXCEPT !.op = "encode_varint", !.value = v,
                                  !.bytes = encode_varint(v)]
    /\ UNCHANGED << now, store, disk, gen, started, task, batch, svc, pool >>

\* The bytes of a string of the given length (one ASCII letter repeated).
Str(len, b) == [k \in 1..len |-> b]

\* String lengths: the short ones, and both sides of the lengths at which
\* the varint of the length grows by a byte.
TextLens == (0..MaxLen) \cup {127, 128, 129, 16383, 16384}

Texts == { Str(len, 65) : len \in TextLens }

\* Field numbers: those in use (1 to 10) and both sides of the numbers at
\* which the tag grows to two bytes and leaves the u8.
FieldNums == {1, 2, 10, 15, 16, 31, 32}

\* windsurf_service.rs:1983-2001.
encode_string_field(field_num, value) ==
    LET len == Len(value)
    IN  << AsU8(AsU8(field_num * 8) + 2) >>
            \o (IF len < 128 THEN << AsU8(len) >>
                ELSE << AsU8((len % 128) + 128), AsU8(len \div 128) >>)
            \o value

EncodeStringField ==
    /\ codec.op = "none"
    /\ \E n \in FieldNums, value \in Texts :
         codec' = [NoCodec EXCEPT !.op = "encode_string_field",
                                  !.field_num = n, !.text = value,
                                  !.bytes = encode_string_field(n, value)]
    /\ UNCHANGED << now, store, disk, gen, started, task, batch, svc, pool >>

\* seat_count values (an i32) given to build_request_body.
SeatCounts == {1, 18, 19, 20, 127, 128, 255, 256, 300}

\* windsurf_service.rs:38-62: field 1 the token, field 2 the seat count.
build_request_body(token, seat_count) ==
    LET token_length == Len(token)
    IN  << 10 >>
            \o (IF token_length < 128 THEN << AsU8(token_length) >>
                ELSE << AsU8((token_length % 128) + 128),
                        AsU8(token_length \div 128) >>)
            \o token
            \o << 16, AsU8(seat_count) >>

BuildRequestBody ==
    /\ codec.op = "none"
    /\ \E token \in Texts, seat_count \in SeatCounts :
         codec' = [NoCodec EXCEPT !.op = "build_request_body",
                                  !.field_num = 1, !.text = token,
                                  !.value = seat_count,
                                  !.bytes = build_request_body(token, seat_count),
                                  !.scalars =
                                      << Scalar(2, seat_count,
                                                Len(build_request_body(token, seat_count)) - 1) >>]
    /\ UNCHANGED << now, store, disk, gen, started, task, batch, svc, pool >>

\* Option<&str> and Option<i32> arguments.
Nothing == [some |-> FALSE, v |-> << >>]
Some(v) == [some |-> TRUE, v |-> v]
NoSeats == [some |-> FALSE, v |-> 0]

\* The loop of windsurf_service.rs:225-230 and 279-284.
RECURSIVE length_varint(_)
length_varint(len) ==
    IF len >= 128 THEN << AsU8((len % 128) + 128) >> \o length_varint(len \div 128)
    ELSE << AsU8(len) >>

\* windsurf_service.rs:203-289: the parts of the SubscribeToPlan body in the
\* order they are pushed.
subscribe_to_plan_parts(token, success_url, cancel_url, teams_tier, payment_period, team_name, seats, turnstile_token) ==
    LET seat_count == IF seats.some THEN seats.v ELSE 1
    IN  << << 10 >> \o length_varint(Len(token)) \o token,
           << 24, 1 >>,
           << 34, AsU8(Len(success_url)) >> \o success_url,
           << 42, AsU8(Len(cancel_url)) >> \o cancel_url,
           IF teams_tier \in {1, 3} /\ seat_count > 0
           THEN << 48, AsU8(seat_count) >> ELSE << >>,
           IF team_name.some /\ team_name.v # << >>
           THEN << 58, AsU8(Len(team_name.v)) >> \o team_name.v ELSE << >>,
           << 64, AsU8(teams_tier) >>,
           << 72, AsU8(payment_period) >>,
           IF turnstile_token.some
           THEN << 82 >> \o length_varint(Len(turnstile_token.v)) \o turnstile_token.v
           ELSE << >> >>

RECURSIVE Concat(_)
Concat(parts) ==
    IF parts = << >> THEN << >> ELSE Head(parts) \o Concat(Tail(parts))

build_subscribe_to_plan_body(token, success_url, cancel_url, teams_tier, payment_period, team_name, seats, turnstile_token) ==
    Concat(subscribe_to_plan_parts(token, success_url, cancel_url, teams_tier,
                                   payment_period, team_name, seats,
                                   turnstile_token))

\* The position at which part k of the body starts.
PartStart(parts, k) == Len(Concat(SubSeq(parts, 1, k - 1))) + 1

Tiers == {1, 2, 3, 128}
Periods == {1, 2, 300}
SeatOptions == {NoSeats, Some(0), Some(5), Some(200)}

BuildSubscribeToPlanBody ==
    /\ codec.op = "none"
    /\ \E token \in {Str(1, 65), Str(128, 65)}, teams_tier \in Tiers,
          payment_period \in Periods, seats \in SeatOptions,
          team_name \in {Nothing, Some(Str(1, 66))},
          turnstile_token \in {Nothing, Some(Str(1, 67))} :
         LET parts == subscribe_to_plan_parts(token, Str(2, 68), Str(2, 69),
                          teams_tier, payment_period, team_name, seats,
                          turnstile_token)
         IN  codec' = [NoCodec EXCEPT
                 !.op = "build_subscribe_to_plan_body",
                 !.field_num = 1, !.text = token,
                 !.bytes = build_subscribe_to_plan_body(token, Str(2, 68),
                               Str(2, 69), teams_tier, payment_period,
                               team_name, seats, turnstile_token),
                 !.scalars =
                     (IF parts[5] # << >>
                      THEN << Scalar(6, IF seats.some THEN seats.v ELSE 1,
                                     PartStart(parts, 5)) >>
                      ELSE << >>)
                     \o << Scalar(3, 1, PartStart(parts, 2)),
                           Scalar(8, teams_tier, PartStart(parts, 7)),
                           Scalar(9, payment_period, PartStart(parts, 8)) >>]
    /\ UNCHANGED << now, store, disk, gen, started, task, batch, svc, pool >>

\* For comparison: a serializer with the two-byte length of the builders.
serialize_protobuf_string_two_bytes(value) ==
    IF value = << >> THEN << >>
    ELSE << 10 >> \o encode_varint_two_bytes(Len(value)) \o value

\* switch_account_commands.rs:79-84: the length loop of the serializer.
RECURSIVE serialize_length(_)
serialize_length(length) ==
    IF length > 127 THEN << AsU8(length % 128) + 128 >> \o serialize_length(length \div 128)
    ELSE << AsU8(length) % 128 >>

\* switch_account_commands.rs:67-89.
serialize_protobuf_string(value) ==
    IF value = << >> THEN << >>
    ELSE << 10 >> \o serialize_length(Len(value)) \o value

\* Option<String>, and what else a call of the decoder can end in: a panic.
\* tags lists the positions (0-based) whose byte the decoder read as a field
\* tag, overflow tells that a shift by 64 bits or more, or a sum that does
\* not fit a usize, was evaluated.
Outcome(kind, value, tags, overflow) ==
    [kind |-> kind, value |-> value, tags |-> tags, overflow |-> overflow]

\* usize on the 64-bit targets of the application.
WordBits == 64

\* A usize length is kept as the set of its one bits, so that every shift
\* and every sum is computed as the machine computes it; the bits below
\* LowBits are also read as a number, which covers every buffer drawn.
LowBits == 21

RECURSIVE Pow2(_)
Pow2(k) == IF k = 0 THEN 1 ELSE 2 * Pow2(k - 1)

Bits(group) == { i \in 0..6 : (group \div Pow2(i)) % 2 = 1 }

\* group << shift on usize, the shift below 64: the bits shifted beyond the
\* word are lost.
Shl(group, shift) ==
    { shift + i : i \in Bits(group) } \cap (0..(WordBits - 1))

\* a | b on usize values.
Or(length, x) == length \cup x

RECURSIVE LowValue(_)
LowValue(bits) ==
    IF bits = {} THEN 0
    ELSE LET b == CHOOSE x \in bits : TRUE
         IN  Pow2(b) + LowValue(bits \ {b})

Low(length) == LowValue(length \cap (0..(LowBits - 1)))
High(length) == length \cap (LowBits..(WordBits - 1))

\* pos + length does not fit a usize (pos is below 2^LowBits).  With
\* overflow checks the sum panics; without them it wraps to a value below
\* pos, the comparison with data.len() holds and the slice
\* data[pos..pos + length], whose end is before its start, panics.
AddOverflows(pos, length) ==
    /\ High(length) = LowBits..(WordBits - 1)
    /\ pos + Low(length) >= Pow2(LowBits)

\* std::str::from_utf8 on bytes of one- and two-byte characters (the leading
\* bytes of longer characters do not occur in the buffers drawn).
Utf8(bytes) ==
    \A k \in 1..Len(bytes) :
        \/ bytes[k] < 128
        \/ /\ bytes[k] \in 194..223
           /\ k < Len(bytes)
           /\ bytes[k + 1] \in 128..191
        \/ /\ bytes[k] \in 128..191
           /\ k > 1
           /\ bytes[k - 1] \in 194..223

\* switch_account_commands.rs:110-121: the loop that reads the length.  With
\* overflow checks (a debug build) a shift by 64 or more panics, without
\* them the shift count is taken modulo 64.
RECURSIVE ReadLength(_, _, _, _, _, _)
ReadLength(data, pos, length, shift, checks, overflow) ==
    IF pos >= Len(data)
    THEN [pos |-> pos, length |-> length, overflow |-> overflow, panic |-> FALSE]
    ELSE LET byte == data[pos + 1]
         IN  IF shift >= WordBits /\ checks
             THEN [pos |-> pos + 1, length |-> length, overflow |-> TRUE,
                   panic |-> TRUE]
             ELSE LET len2 == Or(length, Shl(byte % 128, shift % WordBits))
                      ovf  == overflow \/ shift >= WordBits
                  IN  IF byte < 128
                      THEN [pos |-> pos + 1, length |-> len2, overflow |-> ovf,
                            panic |-> FALSE]
                      ELSE ReadLength(data, pos + 1, len2, shift + 7, checks, ovf)

\* switch_account_commands.rs:134-140: the loop that skips a varint.
RECURSIVE SkipVarint(_, _)
SkipVarint(data, pos) ==
    IF pos >= Len(data) THEN pos
    ELSE IF data[pos + 1] < 128 THEN pos + 1
    ELSE SkipVarint(data, pos + 1)

\* switch_account_commands.rs:98-147: the loop over the fields.
RECURSIVE DecodeFields(_, _, _, _, _)
DecodeFields(data, pos, checks, tags, overflow) ==
    IF pos >= Len(data) THEN Outcome("none", << >>, tags, overflow)
    ELSE LET tag == data[pos + 1]
             wire_type == tag % 8
             field_number == tag \div 8
             read == Append(tags, pos)
         IN  IF wire_type = 2
             THEN LET l == ReadLength(data, pos + 1, {}, 0, checks, overflow)
                  IN  IF l.panic THEN Outcome("panic", << >>, read, TRUE)
                      ELSE IF AddOverflows(l.pos, l.length)
                      THEN Outcome("panic", << >>, read, TRUE)
                      ELSE IF High(l.length) = {}
                              /\ l.pos + Low(l.length) <= Len(data)
                      THEN LET value == SubSeq(data, l.pos + 1,
                                               l.pos + Low(l.length))
                           IN  IF Utf8(value) /\ field_number = 1 /\ value # << >>
                               THEN Outcome("some", value, read, l.overflow)
                               ELSE DecodeFields(data, l.pos + Low(l.length),
                                                 checks, read, l.overflow)
                      ELSE DecodeFields(data, l.pos, checks, read, l.overflow)
             ELSE IF wire_type = 0
             THEN DecodeFields(data, SkipVarint(data, pos + 1), checks, read,
                               overflow)
             ELSE Outcome("none", << >>, read, overflow)

\* switch_account_commands.rs:92-148.
deserialize_protobuf_response(data, checks) ==
    IF Len(data) < 2 THEN Outcome("none", << >>, << >>, FALSE)
    ELSE DecodeFields(data, 0, checks, << >>, FALSE)

\* The strings given to the serializer, a two-byte character among them.
Strings == Texts \cup { << 195, 169 >>, << 65, 195, 169 >> }

\* serialize_protobuf_string and deserialize_protobuf_response on its bytes.
RoundTrip ==
    /\ codec.op = "none"
    /\ \E value \in Strings, checks \in BOOLEAN :
         codec' = [NoCodec EXCEPT
                 !.op = "round_trip", !.field_num = 1, !.text = value,
                 !.checks = checks,
                 !.bytes = serialize_protobuf_string(value),
                 !.outcome = deserialize_protobuf_response(
                                 serialize_protobuf_string(value), checks)]
    /\ UNCHANGED << now, store, disk, gen, started, task, batch, svc, pool >>

\* The response bodies given to the decoder.  Every buffer of up to MaxBuf
\* bytes over Bytes: tags of field 1 and 2 with the wire types 0, 2 and 5, a
\* letter, and bytes with the continuation bit.
MaxBuf == 4
Bytes == {0, 1, 8, 10, 13, 18, 65, 128, 255}

RECURSIVE BuffersOf(_)
BuffersOf(n) ==
    IF n = 0 THEN { << >> }
    ELSE { Append(b, x) : b \in BuffersOf(n - 1), x \in Bytes }

ShortBuffers == UNION { BuffersOf(n) : n \in 0..MaxBuf }

\* A length-delimited tag followed by a run of continuation bytes.
RunLens == 8..11
Runs ==
    { << 10 >> \o Str(k, b) \o << e >> :
          k \in RunLens, b \in {128, 255}, e \in {0, 1, 127} }

\* A well-formed field 1 holding the string "A".
ValidField == << 10, 1, 65 >>

\* Well-formed fields of the wire types the decoder has no branch for:
\* fixed64 (1) and fixed32 (5).
UnknownFields ==
    { << 9 >> \o Str(8, 0), << 13 >> \o Str(4, 0), << 29 >> \o Str(4, 7) }

Followed == { f \o ValidField : f \in UnknownFields }

\* A field whose declared length is beyond the end of the buffer, with what
\* is there of its payload.
Payloads == { << >>, << 65 >>, << 10, 1, 65 >>, << 10, 1, 65, 66 >>,
              << 8, 1, 10, 1, 65 >> }
Truncated ==
    { before \o << tag, n >> \o payload :
          before \in { << >>, << 8, 1 >>, << 18, 1, 66 >> },
          tag \in {10, 18}, n \in {6, 100}, payload \in Payloads }

Buffers == ShortBuffers \cup Runs \cup Followed \cup Truncated

\* deserialize_protobuf_response on a response body.
Deserialize ==
    /\ codec.op = "none"
    /\ \E data \in Buffers, checks \in BOOLEAN :
         codec' = [NoCodec EXCEPT
                 !.op = "deserialize", !.bytes = data, !.checks = checks,
                 !.outcome = deserialize_protobuf_response(data, checks)]
    /\ UNCHANGED << now, store, disk, gen, started, task, batch, svc, pool >>

\* windsurf_service.rs:2071-2076: the length of an embedded message.
item_length(item_len) ==
    IF item_len < 128 THEN << AsU8(item_len) >>
    ELSE << AsU8((item_len % 128) + 128), AsU8(item_len \div 128) >>

\* windsurf_service.rs:2064-2066: one PreapprovalUserItem.
preapproval_item(name, email) ==
    encode_string_field(1, name) \o encode_string_field(2, email)

\* windsurf_service.rs:2060-2078: the GrantPreapproval body for one user.
grant_preapproval_body(token, name, email) ==
    encode_string_field(1, token)
        \o << 18 >> \o item_length(Len(preapproval_item(name, email)))
        \o preapproval_item(name, email)

NameLens == {1, 128, 8190, 16384}

GrantPreapprovalBody ==
    /\ codec.op = "none"
    /\ \E name_len \in NameLens, email_len \in NameLens :
         LET token == Str(2, 84)
             name  == Str(name_len, 78)
             email == Str(email_len, 69)
             item  == preapproval_item(name, email)
             at    == Len(encode_string_field(1, token)) + 1
             inner == at + 1 + Len(item_length(Len(item)))
         IN  codec' = [NoCodec EXCEPT
                 !.op = "grant_preapproval", !.field_num = 1, !.text = token,
                 !.bytes = grant_preapproval_body(token, name, email),
                 !.fields = << Field(1, token, 1),
                               Field(2, item, at),
                               Field(1, name, inner),
                               Field(2, email,
                                     inner + Len(encode_string_field(1, name))) >>]
    /\ UNCHANGED << now, store, disk, gen, started, task, batch, svc, pool >>

\* windsurf_service.rs:1741-1746 (and 1749-1762): one repeated label field.
RECURSIVE model_labels(_, _)
model_labels(tag, models) ==
    IF models = << >> THEN << >>
    ELSE << tag, AsU8(Len(Head(models))) >> \o Head(models)
             \o model_labels(tag, Tail(models))

\* windsurf_service.rs:1732-1762: the TeamOrganizationalControls message.
controls_parts(team_id, cascade_models, command_models, extension_models) ==
    << << 10, AsU8(Len(team_id)) >> \o team_id,
       model_labels(18, cascade_models),
       model_labels(26, command_models),
       model_labels(50, extension_models) >>

\* windsurf_service.rs:1766-1776: the length of the controls message.
controls_length(controls_len) ==
    IF controls_len < 128 THEN << AsU8(controls_len) >>
    ELSE IF controls_len < 16384
    THEN << AsU8((controls_len % 128) + 128), AsU8(controls_len \div 128) >>
    ELSE << AsU8((controls_len % 128) + 128),
            AsU8(((controls_len \div 128) % 128) + 128),
            AsU8(controls_len \div 16384) >>

\* windsurf_service.rs:1729-1789: the body of
\* upsert_team_organizational_controls.
organizational_controls_body(token, team_id, cascade_models, command_models, extension_models) ==
    LET controls == Concat(controls_parts(team_id, cascade_models,
                                          command_models, extension_models))
    IN  << 10 >> \o controls_length(Len(controls)) \o controls
            \o << 18 >> \o item_length(Len(token)) \o token

TeamIdLens == {1, 2, 127, 128}
ModelLists == { << >>, << Str(2, 77) >>, << Str(128, 77) >>,
                << Str(2, 77), Str(1, 76) >> }

OrganizationalControlsBody ==
    /\ codec.op = "none"
    /\ \E team_len \in TeamIdLens, cascade_models \in ModelLists,
          command_models \in { << >>, << Str(1, 67) >> } :
         LET token    == Str(2, 84)
             team_id  == Str(team_len, 73)
             parts    == controls_parts(team_id, cascade_models,
                                        command_models, << Str(1, 88) >>)
             controls == Concat(parts)
             inner    == 1 + Len(controls_length(Len(controls)))
         IN  codec' = [NoCodec EXCEPT
                 !.op = "upsert_team_organizational_controls",
                 !.field_num = 1, !.text = token,
                 !.bytes = organizational_controls_body(token, team_id,
                               cascade_models, command_models, << Str(1, 88) >>),
                 !.fields =
                     << Field(1, controls, 1),
                        Field(1, team_id, inner + 1),
                        Field(6, Str(1, 88), inner + PartStart(parts, 4)),
                        Field(2, token, inner + Len(controls) + 1) >>
                     \o (IF cascade_models = << >> THEN << >>
                         ELSE << Field(2, Head(cascade_models),
                                       inner + PartStart(parts, 2)) >>)
                     \o (IF command_models = << >> THEN << >>
                         ELSE << Field(3, Head(command_models),
                                       inner + PartStart(parts, 3)) >>)]
    /\ UNCHANGED << now, store, disk, gen, started, task, batch, svc, pool >>

\* ---------------------------------------------------------------------- time
Tick ==
    /\ now < MaxTime
    /\ now' = now + 1
    /\ Retired
    /\ UNCHANGED << store, disk, gen, started, batch, svc, pool, codec >>

\* ---------------------------------------------------------------------- Init
\* The account as it may be before the commands run: never signed in, or
\* holding the triple of an earlier exchange (number 1) that expires at
\* tick 2 or at tick 1 + TokenTTL.
InitAccounts ==
    { NoAccount,
      [NoAccount EXCEPT !.token = Token(1, 0), !.refresh_token = Token(1, 0),
                        !.token_expires_at = TokenTTL],
      [NoAccount EXCEPT !.token = Token(1, 1), !.refresh_token = Token(1, 1),
                        !.token_expires_at = 1 + TokenTTL] }

\* token_expires_at is an Option of its own: an account read from the data
\* file may hold tokens with no expiry recorded.
AccountWithoutExpiry ==
    [NoAccount EXCEPT !.token = Token(1, 1), !.refresh_token = Token(1, 1)]

Init ==
    /\ now = 1
    /\ store \in InitAccounts
    /\ disk = store
    /\ gen = 1
    /\ started = 0
    /\ task = [p \in Procs |-> IdleTask]
    /\ batch = NoBatch
    /\ svc = NoService
    /\ pool = NoPool
    /\ codec = NoCodec

\* The exchange chain of ensure_valid_token_with_force.
EnsureValid(p) ==
    \/ EnsureValidCheck(p)
    \/ EnsureValidRefresh(p)
    \/ EnsureValidSignIn(p)
    \/ EnsureValidStore(p)

\* The commands on one account, as concurrent tasks.
Next ==
    \/ Tick
    \/ \E p \in Procs :
        \/ EnsureValid(p)
        \/ GetBillingStart(p)
        \/ GetBillingCall(p)
        \/ GetCurrentUserStart(p)
        \/ GetCurrentUserRead(p)
        \/ GetCurrentUserCall(p)
        \/ ResetCreditsStart(p)
        \/ ResetCreditsToken(p)
        \/ ResetCreditsCall(p)
        \/ SwitchAccountStart(p)
        \/ SwitchAccountRefresh(p)
        \/ SwitchAccountLogin(p)

Spec == Init /\ [][Next]_vars

\* batch_refresh_tokens, its items as concurrent tasks, beside get_billing.
NextBatch ==
    \/ Tick
    \/ BatchStart
    \/ BatchItemInvalid
    \/ BatchFlush
    \/ \E p \in Procs :
        \/ BatchItemStart(p)
        \/ RefreshTokenInternalRefresh(p)
        \/ RefreshTokenInternalSignIn(p)
        \/ RefreshTokenInternalStore(p)
        \/ RefreshTokenInternalRead(p)
        \/ RefreshTokenInternalCall(p)
        \/ EnsureValid(p)
        \/ GetBillingStart(p)
        \/ GetBillingCall(p)

SpecBatch == Init /\ [][NextBatch]_vars

\* The calls of WindsurfService, one at a time.
NextService ==
    \/ UpdateSeatsCall
    \/ UpdateSeatsAttempt
    \/ ServiceCall
    \/ ResetCreditsSettings
    \/ ResetCreditsRepeated

SpecService == Init /\ [][NextService]_vars

\* One batch command and the futures of its ids.
NextPool ==
    \/ BatchResetCreditsStart
    \/ BatchRefreshTokensStart
    \/ BufferUnorderedPull
    \/ BatchItemInvalidUuid
    \/ BatchItemRun
    \/ BatchResetCreditsReturn
    \/ BatchRefreshTokensReturn

SpecPool == Init /\ [][NextPool]_vars

\* The encoders and decoders, applied one after the other.
NextCodec ==
    \/ EncodeVarint
    \/ EncodeStringField
    \/ BuildRequestBody
    \/ BuildSubscribeToPlanBody
    \/ RoundTrip
    \/ GrantPreapprovalBody
    \/ Deserialize
    \/ OrganizationalControlsBody

SpecCodec == Init /\ [][NextCodec]_vars

\* ensure_valid_token under get_billing, also on the account whose tokens
\* have no expiry.
InitExpiry ==
    /\ now = 1
    /\ store \in InitAccounts \cup {AccountWithoutExpiry}
    /\ disk = store
    /\ gen = 1
    /\ started = 0
    /\ task = [p \in Procs |-> IdleTask]
    /\ batch = NoBatch
    /\ svc = NoService
    /\ pool = NoPool
    /\ codec = NoCodec

NextExpiry ==
    \/ Tick
    \/ \E p \in Procs :
        \/ EnsureValid(p)
        \/ GetBillingStart(p)
        \/ GetBillingCall(p)

SpecExpiry == InitExpiry /\ [][NextExpiry]_vars

\* ------------------------------------------------------------ properties
Tasks(o) == { p \in Procs : task[p].op = o }

ReturnedFrom(o) == { p \in Tasks(o) : task[p].pc = "done" }

Every401(log) == \A i \in 1..Len(log) : log[i] = 401

Callers == { p \in Procs :
               task[p].op \in {"get_billing", "get_current_user", "reset_credits"} }

\* ensure_valid_token returned Ok to the task, after its exchange chain
\* (ChainOk) or by the early return (EarlyOk).
ChainOk(p) ==
    task[p].pc = AfterEnsure(task[p].op) /\ task[p].evTrace # << >>

EarlyOk(p) ==
    task[p].pc = AfterEnsure(task[p].op) /\ task[p].evTrace = << >>

\* ensure_valid_token returned Err to the task, which returned it.
ChainErr(p) ==
    /\ task[p].pc = "done"
    /\ task[p].result.error \in
           {"get_decrypted_password", "sign_in", "update_account_tokens"}

Count(log, S) == Cardinality({ i \in 1..Len(log) : log[i] \in S })

Last(log) == log[Len(log)]

RefreshCalls == {"refresh_ok", "refresh_err"}
SignInCalls == {"sign_in_ok", "sign_in_err"}
SecretReads == {"password_ok", "password_err"}

\* C2: the step of ensure_valid_token with force = false on an account
\* whose token is present and unexpired returns Ok to the caller and changes
\* nothing: no exchange, no read of the secret, no write to the store, and
\* the in-memory account is as it was.
C2_CachedTokenNoOp ==
    [][\A p \in Procs :
          ( /\ task[p].pc = "ev_check"
            /\ ~task[p].force_refresh
            /\ task[p].account.token # NoToken
            /\ now < task[p].account.token_expires_at
            /\ task'[p] # task[p] )
          => /\ task'[p] = [task[p] EXCEPT !.pc = AfterEnsure(task[p].op)]
             /\ task'[p].evTrace = << >>
             /\ store' = store
             /\ disk' = disk
             /\ gen' = gen]_vars

C2_Witness ==
    \E p \in Callers :
        /\ EarlyOk(p)
        /\ ~task[p].force_refresh
        /\ task[p].account.token # NoToken
        /\ now < task[p].account.token_expires_at
        /\ Triple(task[p].account) = Triple(store)

\* C3 as stated: an ensure_valid_token that did not return early has, when
\* it returns, issued exactly one exchange request.
C3_OneExchangeAsStated ==
    \A p \in Callers :
        (ChainOk(p) \/ ChainErr(p)) =>
            Count(task[p].evTrace, RefreshCalls \cup SignInCalls) = 1

\* C3, amended: an ensure_valid_token that does not return early runs one
\* chain of at most one refresh and at most one sign-in, of which at most
\* one is answered; when it returns Ok exactly one was answered, and it
\* issued two exchange requests exactly when the refresh failed first.
C3_OneExchangeChain ==
    \A p \in Callers :
        LET log == task[p].evTrace IN
        /\ Count(log, RefreshCalls) <= 1
        /\ Count(log, SignInCalls) <= 1
        /\ Count(log, {"refresh_ok", "sign_in_ok"}) <= 1
        /\ ChainOk(p) =>
              /\ Count(log, {"refresh_ok", "sign_in_ok"}) = 1
              /\ Count(log, RefreshCalls \cup SignInCalls) =
                     IF log[1] = "refresh_err" THEN 2 ELSE 1

C3_Witness ==
    \E p \in Callers :
        /\ ChainOk(p)
        /\ task[p].force_refresh
        /\ task[p].evTrace = << "refresh_ok", "store_ok" >>

\* C4 as stated: ensure_valid_token returns an error only when the sign-in
\* fell back to has failed (after a failed refresh, or with no refresh
\* token at all).
C4_ErrorOnlyIfBothFailAsStated ==
    \A p \in Callers :
        ChainErr(p) =>
            /\ Last(task[p].evTrace) \in {"password_err", "sign_in_err"}
            /\ Count(task[p].evTrace, {"refresh_ok"}) = 0

\* C4, amended: ensure_valid_token returns an error only when the sign-in
\* fell back to has failed, or when update_account_tokens failed after an
\* answered exchange; it returns Ok only after the exchange was stored.
C4_ErrorOnlyIfChainOrStoreFails ==
    \A p \in Callers :
        LET log == task[p].evTrace IN
        /\ ChainErr(p) =>
              \/ /\ Last(log) \in {"password_err", "sign_in_err"}
                 /\ Count(log, {"refresh_ok", "sign_in_ok"}) = 0
                 /\ task[p].result.error \in {"get_decrypted_password", "sign_in"}
              \/ /\ Last(log) = "store_err"
                 /\ Count(log, {"refresh_ok", "sign_in_ok"}) = 1
                 /\ task[p].result.error = "update_account_tokens"
        /\ ChainOk(p) =>
              /\ Last(log) = "store_ok"
              /\ Count(log, {"password_err", "sign_in_err", "store_err"}) = 0

C4_Witness ==
    \E p \in Callers :
        /\ ChainErr(p)
        /\ task[p].evTrace = << "refresh_err", "password_ok", "sign_in_err" >>

\* C5: the sign-in (get_decrypted_password, then sign_in with the password
\* just read) is reached exactly when the account has no refresh token or
\* its refresh has failed: a failed refresh is always followed by the
\* sign-in, and no secret is read before a present refresh token was tried.
C5_SignInOnlyAsFallback ==
    \A p \in Callers :
        LET log == task[p].evTrace IN
        /\ task[p].pc = "ev_refresh" =>
              task[p].account.refresh_token # NoToken /\ log = << >>
        /\ task[p].pc = "ev_pwd" =>
              \/ task[p].account.refresh_token = NoToken /\ log = << >>
              \/ task[p].account.refresh_token # NoToken /\ log = << "refresh_err" >>
        /\ (log # << >> /\ Last(log) = "refresh_err") => task[p].pc = "ev_pwd"
        /\ \A i \in 1..Len(log) :
              log[i] \in SecretReads =>
                 /\ i = 1 \/ (i = 2 /\ log[1] = "refresh_err")
                 /\ log[i] = "password_ok" =>
                       (i < Len(log) /\ log[i + 1] \in SignInCalls)
        /\ \A i \in 1..Len(log) :
              log[i] \in SignInCalls => (i > 1 /\ log[i - 1] = "password_ok")

C5_Witness ==
    \E p \in Callers :
        /\ ChainOk(p)
        /\ task[p].evTrace =
               << "refresh_err", "password_ok", "sign_in_ok", "store_ok" >>

\* C6: an ensure_valid_token whose refresh was answered makes no read of
\* the password and no sign-in: it stores the refreshed tokens and returns.
C6_RefreshOnly ==
    \A p \in Callers :
        LET log == task[p].evTrace IN
        (log # << >> /\ log[1] = "refresh_ok") =>
            /\ Count(log, SecretReads \cup SignInCalls) = 0
            /\ \/ log = << "refresh_ok" >> /\ task[p].pc = "ev_store"
               \/ /\ log = << "refresh_ok", "store_ok" >>
                  /\ task[p].pc \notin {"ev_refresh", "ev_pwd", "ev_store", "done"}
               \/ log = << "refresh_ok", "store_err" >> /\ ChainErr(p)

C6_Witness ==
    \E p \in Callers :
        /\ ChainOk(p)
        /\ ~task[p].force_refresh
        /\ task[p].evTrace = << "refresh_ok", "store_ok" >>
        /\ Triple(task[p].account) = Triple(store)

\* The three token fields of the account a are those one exchange returned
\* (or all absent): the token and the refresh token have one issuer, and the
\* expiry is that of the token.
FromOneExchange(a) ==
    /\ a.token = a.refresh_token
    /\ a.token_expires_at =
           IF a.token = NoToken THEN None ELSE a.token.at + TokenTTL

\* C7 as stated: the stored account, in memory and on disk, and every
\* command's in-memory account hold a token, refresh token and expiry that
\* come from one exchange, never a mix of a new exchange and an older one.
C7_TripleFromOneExchange ==
    /\ FromOneExchange(store)
    /\ FromOneExchange(disk)
    /\ \A p \in Procs : FromOneExchange(task[p].account)

\* C8 as stated: a reset_credits that made no exchange leaves the stored
\* token, refresh token and expiry as they were when it writes its account
\* back, whatever ran in between (here with the stored three fields being
\* those of one exchange).
C8_NoExchangeNoTokenWrite ==
    [][\A p \in Procs :
          ( /\ task[p].pc = "rc_call"
            /\ FromOneExchange(store)
            /\ task[p].evTrace = << >>
            /\ task'[p].pc = "done" )
          => Triple(store') = Triple(store)]_vars

C10_ForcedRefreshOn401 ==
    [][\A p \in Procs :
          ( /\ task'[p].op \in {"get_billing", "get_current_user", "reset_credits"}
            /\ task[p].reqLog = << >>
            /\ task'[p].reqLog = << 401 >> )
          => /\ task'[p].pc = "ev_check"
             /\ task'[p].force_refresh]_vars

\* An answer that update_seats takes as success: 200 or 204 whose body,
\* if it decodes, does not say success = false.
SeatsUpdated(r) == r.status \in {200, 204} /\ r.body # "refused"

\* C11: update_seats called with retry_times = n sends at most n requests
\* (none when n <= 0), goes on only while no attempt has succeeded, and
\* holds one AttemptResult per request sent, numbered 1, 2, ... in order:
\* when it returns, either its last attempt is its only successful one, or
\* none succeeded and all n were made.
C11_BoundedAttempts ==
    svc.op = "update_seats" =>
        /\ svc.sent <= Max(svc.retry_times, 0)
        /\ Len(svc.attempts) = svc.sent
        /\ \A k \in 1..Len(svc.attempts) : svc.attempts[k].attempt = k
        /\ \A k \in 1..Len(svc.answers) :
              /\ k < Len(svc.answers) => ~SeatsUpdated(svc.answers[k])
              /\ svc.attempts[k].status_code = svc.answers[k].status
              /\ svc.attempts[k].error = "transport" <=> svc.answers[k].status = 0
        /\ svc.success <=>
              (svc.answers # << >> /\ SeatsUpdated(Last(svc.answers)))
        /\ svc.pc = "us_loop" => ~svc.success
        /\ svc.pc = "returned" =>
              \/ svc.success /\ svc.sent >= 1
              \/ ~svc.success /\ svc.sent = Max(svc.retry_times, 0)

C11_Witness ==
    /\ svc.op = "update_seats"
    /\ svc.pc = "returned"
    /\ svc.retry_times = 2
    /\ svc.sent = 2
    /\ svc.attempts[1].error = "transport"
    /\ svc.attempts[2].status_code = 500
    /\ ~svc.success

\* The ceiling the batch commands state for their streams.
Ceiling ==
    IF pool.cmd = "batch_reset_credits" THEN 5 ELSE Max(pool.limit, 1)

Ceilinged ==
    \/ pool.cmd = "batch_reset_credits"
    \/ pool.cmd = "batch_refresh_tokens" /\ ~pool.unlimited

\* What the futures of the batch have become, as a set of list positions.
Pulled == 1..(pool.next - 1)

\* C12: a batch with concurrency ceiling c (5 in batch_reset_credits,
\* max(concurrent_limit, 1) in batch_refresh_tokens with the unlimited
\* setting off) never has more than c items in flight, whatever order the
\* items complete in, can always go on while it runs, and has completed all
\* its items when collect() ends.
C12_CeilingAndCompletion ==
    (Ceilinged /\ pool.state # "none") =>
        /\ Cardinality(pool.in_flight) <= Ceiling
        /\ pool.in_flight \subseteq Pulled
        /\ Len(pool.results) + Cardinality(pool.in_flight) = pool.next - 1
        /\ pool.state = "running" =>
              \/ pool.in_flight # {}
              \/ ENABLED BufferUnorderedPull
              \/ Collected
        /\ (Collected \/ pool.state = "returned") =>
              /\ pool.next = Len(pool.ids) + 1
              /\ Len(pool.results) = Len(pool.ids)

\* Five futures in progress while a sixth id waits in the stream.
C12_Witness ==
    /\ pool.cmd = "batch_reset_credits"
    /\ pool.state = "running"
    /\ Len(pool.ids) = 6
    /\ Cardinality(pool.in_flight) = 5
    /\ pool.next = 6
    /\ Len(pool.results) = 0

\* How often an id occurs at the given positions of a list.
Occurs(id, list, positions) ==
    Cardinality({ k \in positions : list[k] = id })

\* The ids of the entries, in the order of completion.
EntryIds == [k \in DOMAIN pool.results |-> pool.results[k].id]

\* C13: the collected results hold exactly one entry per submitted id, the
\* same multiset of ids as submitted with duplicates counted, whatever each
\* item's outcome was; while the batch runs they hold one entry for every
\* future that has completed.
C13_OneEntryPerId ==
    /\ \A id \in PoolIds :
         Occurs(id, EntryIds, DOMAIN EntryIds)
             = Occurs(id, pool.ids, Pulled \ pool.in_flight)
    /\ (Collected \/ pool.state = "returned") =>
         \A id \in PoolIds :
             Occurs(id, EntryIds, DOMAIN EntryIds)
                 = Occurs(id, pool.ids, DOMAIN pool.ids)

\* A duplicated id, one of its items failed and the other succeeded.
C13_Witness ==
    /\ pool.state = "returned"
    /\ pool.ids = << "account", "account" >>
    /\ pool.results = << Entry("account", FALSE, "exchange"),
                         Entry("account", TRUE, "none") >>

\* The positions of the submitted list that hold a UUID.
ValidPositions == { k \in DOMAIN pool.ids : pool.ids[k] # "invalid" }

\* C14: an id that is no UUID gets a failed "Invalid UUID" entry without
\* its item reading the store, exchanging credentials, calling the API or
\* sleeping the start-up delay; the UUIDs of the same batch go through
\* their call (after the delay where batch_reset_credits has one) and get
\* the entry of its outcome.
C14_InvalidIdFailsAtOnce ==
    /\ pool.touched \cup pool.delayed \subseteq ValidPositions
    /\ \A k \in DOMAIN pool.results :
         pool.results[k].id = "invalid" <=> pool.results[k].error = "Invalid UUID"
    /\ \A k \in DOMAIN pool.results :
         pool.results[k].id = "invalid" => ~pool.results[k].success
    /\ pool.touched = ValidPositions \cap (Pulled \ pool.in_flight)
    /\ pool.delayed =
         IF pool.cmd = "batch_reset_credits" THEN pool.touched \ {1} ELSE {}
    /\ (Collected \/ pool.state = "returned") => pool.touched = ValidPositions

\* The second id is no UUID: its entry is there before the first item ends.
C14_Witness ==
    /\ pool.cmd = "batch_reset_credits"
    /\ pool.state = "returned"
    /\ pool.ids = << "account", "invalid" >>
    /\ pool.results = << Entry("invalid", FALSE, "Invalid UUID"),
                         Entry("account", TRUE, "none") >>
    /\ pool.touched = {1}
    /\ pool.delayed = {}

\* Some item of the batch has ended in a failed entry.
SomeItemFailed == \E k \in DOMAIN pool.results : ~pool.results[k].success

\* C15: the failure of one item neither ends the batch nor holds up the
\* other items: after a failed entry the batch is still running and can go
\* on, or has collected an entry for every id; the command fails only when
\* the settings cannot be read or the final flush fails, never with an
\* item's error.
C15_ItemFailureIsLocal ==
    /\ pool.state = "failed" =>
          \/ pool.response.error = "store" /\ pool.results = << >>
          \/ pool.response.error = "flush" /\ Len(pool.results) = Len(pool.ids)
    /\ SomeItemFailed =>
          /\ pool.state = "running" =>
                \/ pool.in_flight # {}
                \/ ENABLED BufferUnorderedPull
                \/ Collected
          /\ pool.state # "running" => Len(pool.results) = Len(pool.ids)

\* The first item failed on the store, its sibling succeeded after it.
C15_Witness ==
    /\ pool.state = "returned"
    /\ pool.ids = << "account", "account-b" >>
    /\ pool.results = << Entry("account", FALSE, "store"),
                         Entry("account-b", TRUE, "none") >>

\* C16: a started batch always returns, for every id list, the empty one
\* included, and every concurrency setting: while it runs, a future is in
\* progress, the stream can be polled for the next one, or collect() has
\* ended and the command returns.
C16_RunningBatchCanGoOn ==
    pool.state = "running" =>
        \/ pool.in_flight # {}
        \/ ENABLED BufferUnorderedPull
        \/ Collected

\* The entries of a list of results that carry success = true, counted
\* one entry after the other.
RECURSIVE Successes(_)
Successes(results) ==
    IF results = << >> THEN 0
    ELSE (IF Head(results).success THEN 1 ELSE 0) + Successes(Tail(results))

\* C17: in the result a batch returns, total_count is the number of
\* submitted ids, success_count is the number of entries whose success flag
\* is true, and 0 <= success_count <= total_count.
C17_Counts ==
    pool.state = "returned" =>
        /\ pool.response.ok
        /\ pool.response.total_count = Len(pool.ids)
        /\ pool.response.success_count = Successes(pool.results)
        /\ 0 <= pool.response.success_count
        /\ pool.response.success_count <= pool.response.total_count

\* Three ids, one of them no UUID, one failed: one success of three.
C17_Witness ==
    /\ pool.state = "returned"
    /\ pool.cmd = "batch_reset_credits"
    /\ pool.ids = << "invalid", "account", "account-b" >>
    /\ pool.response.total_count = 3
    /\ pool.response.success_count = 1
    /\ ~pool.results[3].success

\* The answer of the request the service made last.
Answer == Last(svc.answers)

\* A 200 answer with a body that does not decode.
Undecodable200 ==
    /\ svc.answers # << >>
    /\ Answer.status = 200
    /\ Answer.body # "none"
    /\ IF svc.op = "update_seats" THEN Answer.body = "garbage" ELSE ~svc.decoded

\* C18: a decode failure never turns an HTTP-200 answer with a non-empty
\* body into a failure: every decoding operation reports it with success =
\* true and keeps the raw bytes next to the decode error.
C18_DecodeFailureKeepsSuccess ==
    (svc.pc = "returned" /\ Undecodable200) =>
        IF svc.op = "update_seats"
        THEN /\ svc.success
             /\ Last(svc.attempts).raw_response = Answer.body
        ELSE /\ svc.result.ok
             /\ svc.result.success
             /\ svc.result.error = "parse"
             /\ svc.result.raw_response.body = Answer.body
             /\ svc.result.raw_response.enc # "absent"

\* What the last request's result says: its success flag, the status code it
\* carries and the body it carries (update_seats reports them in its last
\* AttemptResult, the other operations in the returned value).
Reported ==
    IF svc.op = "update_seats"
    THEN [success |-> svc.success,
          status_code |-> Last(svc.attempts).status_code,
          body |-> Last(svc.attempts).raw_response,
          transport |-> Last(svc.attempts).error = "transport"]
    ELSE [success |-> svc.result.ok /\ svc.result.success,
          status_code |-> svc.result.status_code,
          body |-> IF svc.result.raw_response.enc = "absent" THEN "absent"
                   ELSE svc.result.raw_response.body,
          transport |-> svc.result.error = "transport"]

\* C19: every answer is classified by the table: 200 or 204 with an empty
\* body is a success; 401 is a failure carrying status_code 401; any other
\* status is a failure carrying the status and the raw body; no response at
\* all is a network error that ends the attempt as a failure.
C19_ClassifiedByTable ==
    (svc.pc \in {"us_loop", "returned"} /\ svc.answers # << >>) =>
        /\ (Answer.status \in {200, 204} /\ Answer.body = "none") =>
              Reported.success
        /\ Answer.status = 401 =>
              ~Reported.success /\ Reported.status_code = 401
        /\ Answer.status \notin {0, 200, 204, 401} =>
              /\ ~Reported.success
              /\ Reported.status_code = Answer.status
              /\ Reported.body = Answer.body
        /\ Answer.status = 0 =>
              ~Reported.success /\ Reported.transport

\* C20: every command returns a structured result and never an Err: a
\* command that has returned, whatever failed on its way (the store, the
\* credential exchange, the transport), returned Ok, with success = false
\* when it failed.
C20_NeverErr ==
    \A p \in Procs :
        task[p].pc = "done" =>
            /\ task[p].result.ok
            /\ task[p].result.error = "none"

\* The positions at which a command sends its request.
CallPositions == {"gb_call", "gcu_call", "rc_call"}

\* ensure_valid_token has returned Ok to the task: by its early return, or
\* with the store of the exchanged triple as its last step.
EnsuredOk(t) == t.evTrace = << >> \/ Last(t.evTrace) = "store_ok"

\* The step sends a request of task p.
Sends(p) ==
    /\ task'[p].op = task[p].op
    /\ Len(task'[p].reqLog) = Len(task[p].reqLog) + 1

\* C21: the steps of one account's call path are strictly sequential: a
\* request is sent only after ensure_valid has returned Ok, the forced
\* refresh starts only in the step that received the 401, and the retry
\* request is sent only after the forced refresh has run to its end.
C21_Sequential ==
    [][\A p \in Procs :
         /\ Sends(p) =>
               /\ task[p].pc \in CallPositions
               /\ EnsuredOk(task[p])
         /\ (task'[p].force_refresh /\ ~task[p].force_refresh) =>
               /\ Sends(p)
               /\ task'[p].reqLog = << 401 >>
               /\ task'[p].pc = "ev_check"
         /\ (Sends(p) /\ task[p].reqLog # << >>) =>
               /\ task[p].reqLog = << 401 >>
               /\ task[p].force_refresh
               /\ task[p].evTrace # << >>
               /\ Last(task[p].evTrace) = "store_ok"
    ]_vars

\* A get_current_user that was answered 401, refreshed and then succeeded.
C21_Witness ==
    \E p \in ReturnedFrom("get_current_user") :
        /\ task[p].reqLog = << 401, 200 >>
        /\ task[p].result = OkResult(TRUE, 200)

\* The value a sequence of bytes stands for when read as a varint: seven
\* bits per byte, the first byte the least significant.
RECURSIVE VarintValue(_)
VarintValue(bytes) ==
    IF bytes = << >> THEN 0
    ELSE (Head(bytes) % 128) + 128 * VarintValue(Tail(bytes))

\* A well-formed varint: the top bit set on every byte but the last.
IsVarint(bytes) ==
    /\ bytes # << >>
    /\ \A k \in 1..Len(bytes) : bytes[k] \in 0..255
    /\ \A k \in 1..(Len(bytes) - 1) : bytes[k] >= 128
    /\ Last(bytes) < 128

\* The minimal one: no zero group at its end.
IsMinimalVarint(bytes) ==
    IsVarint(bytes) /\ (Len(bytes) > 1 => Last(bytes) # 0)

\* C22: encode_varint gives the canonical minimal little-endian base-128
\* encoding of its value, and reading those bytes as a varint gives the
\* value back.
C22_VarintRoundTrip ==
    codec.op = "encode_varint" =>
        /\ IsMinimalVarint(codec.bytes)
        /\ VarintValue(codec.bytes) = codec.value

\* 2^21 takes four bytes.
C22_Witness ==
    /\ codec.op = "encode_varint"
    /\ codec.value = 2097152
    /\ codec.bytes = << 128, 128, 128, 1 >>

\* The varint that starts at position pos of the bytes: the bytes up to the
\* first one with a clear top bit, or << >> if there is none.
VarintAt(bytes, pos) ==
    LET ends == { k \in pos..Len(bytes) : bytes[k] < 128 }
    IN  IF ends = {} THEN << >>
        ELSE SubSeq(bytes, pos,
                    CHOOSE k \in ends : \A j \in ends : k <= j)

\* The bytes from position pos on are the length-delimited field n holding
\* value, and nothing else before position pos + the field's size: a varint
\* tag of value 8n + 2, the varint of the length of value, then value.
FieldAt(bytes, pos, n, value) ==
    LET tag == VarintAt(bytes, pos)
        len == VarintAt(bytes, pos + Len(tag))
        at  == pos + Len(tag) + Len(len)
    IN  /\ IsVarint(tag)
        /\ VarintValue(tag) = 8 * n + 2
        /\ IsVarint(len)
        /\ VarintValue(len) = Len(value)
        /\ at + Len(value) - 1 <= Len(bytes)
        /\ SubSeq(bytes, at, at + Len(value) - 1) = value

\* C23: a length-delimited field is tag(n, 2), the varint of the byte length
\* and the bytes, for every field number and every length: so it is in the
\* output of encode_string_field and for the token at the head of the
\* UpdateSeats body.
C23_LengthDelimited ==
    codec.op \in {"encode_string_field", "build_request_body"} =>
        FieldAt(codec.bytes, 1, codec.field_num, codec.text)

\* At position pos the bytes hold the scalar field n with value v: a varint
\* tag of value 8n + 0 and the varint of v.
ScalarAt(bytes, pos, n, v) ==
    LET tag == VarintAt(bytes, pos)
        val == VarintAt(bytes, pos + Len(tag))
    IN  /\ IsVarint(tag)
        /\ VarintValue(tag) = 8 * n
        /\ IsVarint(val)
        /\ VarintValue(val) = v

\* The scalar is the last thing of the part the builder wrote for it: the
\* next part starts right behind its varint.
ScalarEnds(bytes, pos, next) ==
    pos + Len(VarintAt(bytes, pos))
        + Len(VarintAt(bytes, pos + Len(VarintAt(bytes, pos)))) = next

\* C24: a scalar or boolean field is tag(n, 0) and the varint of its value,
\* for every value: the seat count of the UpdateSeats body, and the
\* start_trial flag, the seat count, the tier and the period of the
\* SubscribeToPlan body.
C24_ScalarFields ==
    codec.op \in {"build_request_body", "build_subscribe_to_plan_body"} =>
        \A k \in 1..Len(codec.scalars) :
            /\ ScalarAt(codec.bytes, codec.scalars[k].pos, codec.scalars[k].n,
                        codec.scalars[k].v)
            /\ codec.op = "build_request_body" =>
                  ScalarEnds(codec.bytes, codec.scalars[k].pos,
                             Len(codec.bytes) + 1)

\* C25 as stated: deserialize_protobuf_response(serialize_protobuf_string(s))
\* is s for every string s, the empty one included.
C25_RoundTripAsStated ==
    codec.op = "round_trip" =>
        /\ codec.outcome.kind = "some"
        /\ codec.outcome.value = codec.text

\* C25: for every string s that is not empty the serializer's bytes are the
\* field 1 holding s and deserialize_protobuf_response returns Some(s), also
\* for 128 bytes and more; the empty string is serialized to no bytes, from
\* which the decoder returns None.
C25_RoundTrip ==
    codec.op = "round_trip" =>
        IF codec.text = << >>
        THEN codec.bytes = << >> /\ codec.outcome.kind = "none"
        ELSE /\ FieldAt(codec.bytes, 1, 1, codec.text)
             /\ codec.outcome.kind = "some"
             /\ codec.outcome.value = codec.text
             /\ ~codec.outcome.overflow

\* A string of 16384 bytes, its length a three-byte varint.
C25_Witness ==
    /\ codec.op = "round_trip"
    /\ Len(codec.text) = 16384
    /\ SubSeq(codec.bytes, 1, 4) = << 10, 128, 128, 1 >>
    /\ codec.outcome.kind = "some"
    /\ Len(codec.outcome.value) = 16384

\* C26: a nested message is its fully encoded inner fields wrapped as a
\* length-delimited field whose length prefix is the inner byte count, and
\* every inner field's own length prefix is that field's byte count, for
\* every size of the inner strings: so for the user item of GrantPreapproval
\* and for the TeamOrganizationalControls message.
C26_NestedMessages ==
    codec.op \in {"grant_preapproval", "upsert_team_organizational_controls"} =>
        \A k \in 1..Len(codec.fields) :
            FieldAt(codec.bytes, codec.fields[k].pos, codec.fields[k].n,
                    codec.fields[k].value)

\* C27: decoding never panics: for every input (empty, one byte, truncated,
\* over-long runs of continuation bytes, declared lengths larger than the
\* buffer) the decoder evaluates no overflowing shift or addition and
\* returns Some(value) or None.
C27_NeverPanics ==
    codec.op = "deserialize" =>
        /\ codec.outcome.kind \in {"some", "none"}
        /\ ~codec.outcome.overflow

\* C28: a field of a wire type the decoder does not handle does not stop the
\* decoding: the valid field that follows it is decoded and returned.
C28_UnknownWireTypeSkipped ==
    \A f \in UnknownFields :
        (codec.op = "deserialize" /\ codec.bytes = f \o ValidField) =>
            /\ codec.outcome.kind = "some"
            /\ codec.outcome.value = << 65 >>

\* The position (0-based) after the length of the first length-delimited
\* field whose declared length is beyond the end of the buffer; Len(data)
\* when there is none.  The fields are read as the wire format defines them.
RECURSIVE TruncatedAt(_, _)
TruncatedAt(data, pos) ==
    IF pos >= Len(data) THEN Len(data)
    ELSE IF data[pos + 1] % 8 = 2
    THEN IF pos + 1 >= Len(data) \/ ~IsVarint(VarintAt(data, pos + 2))
         THEN Len(data)
         ELSE LET length == VarintAt(data, pos + 2)
                  start  == pos + 1 + Len(length)
              IN  IF start + VarintValue(length) > Len(data) THEN start
                  ELSE TruncatedAt(data, start + VarintValue(length))
    ELSE IF data[pos + 1] % 8 = 0
    THEN TruncatedAt(data, SkipVarint(data, pos + 1))
    ELSE Len(data)

\* C29: when the declared length of a length-delimited field runs past the
\* end of the buffer the decoding stops there: no byte of the truncated
\* payload is read as a tag, and nothing is returned from it.
C29_TruncatedFieldStops ==
    (codec.op = "deserialize" /\ codec.bytes \in Truncated) =>
        /\ \A k \in 1..Len(codec.outcome.tags) :
               codec.outcome.tags[k] < TruncatedAt(codec.bytes, 0)
        /\ codec.outcome.kind = "none"

\* C30: the attempt log of update_seats is append-only and ordered: every
\* step of a running call leaves the records it already holds as they are
\* and in place, adds at most one record behind them, and the record at
\* position k (counted from 1) has the attempt index k.
C30_AppendOnlyLog ==
    [][svc.pc = "us_loop" =>
          /\ Len(svc'.attempts) \in {Len(svc.attempts), Len(svc.attempts) + 1}
          /\ SubSeq(svc'.attempts, 1, Len(svc.attempts)) = svc.attempts
          /\ \A k \in 1..Len(svc'.attempts) : svc'.attempts[k].attempt = k]_vars

C30_Witness ==
    /\ svc.op = "update_seats"
    /\ svc.pc = "returned"
    /\ svc.success
    /\ Len(svc.attempts) = 2
    /\ svc.attempts[1].status_code = 500
    /\ svc.attempts[2].status_code = 200

\* C31: in update_seats one delay separates attempt k from attempt k + 1
\* and there is no other: delays lists the attempts after which the call
\* slept, and it holds 1, 2, ... up to the attempt before the one the call
\* is at, none of them an attempt that succeeded and none the last
\* configured one.
C31_DelayBetweenAttempts ==
    svc.op = "update_seats" =>
        /\ Len(svc.delays) =
               IF svc.pc = "us_loop" THEN svc.sent ELSE Max(svc.sent - 1, 0)
        /\ \A k \in 1..Len(svc.delays) :
               /\ svc.delays[k] = k
               /\ ~SeatsUpdated(svc.answers[k])
               /\ k < svc.retry_times

C31_Witness ==
    /\ svc.op = "update_seats"
    /\ svc.pc = "returned"
    /\ svc.retry_times = 2
    /\ svc.sent = 2
    /\ ~svc.success
    /\ svc.delays = << 1 >>

\* The record at position k is classified as a success: its status is 200
\* or 204 and the decoded body of its response did not carry success = false.
RecordSucceeded(k) ==
    /\ svc.attempts[k].status_code \in {200, 204}
    /\ svc.answers[k].body # "refused"

\* C32: update_seats returns success = true exactly when its last attempt
\* record has the status 200 or 204 and the decoded body did not carry
\* success = false; that record is then the only one classified as a
\* success; and a call that returns success = false with an attempt count
\* n >= 1 returns exactly n records.
C32_SuccessIsLastRecord ==
    (svc.op = "update_seats" /\ svc.pc = "returned") =>
        /\ svc.success <=>
               (svc.attempts # << >> /\ RecordSucceeded(Len(svc.attempts)))
        /\ svc.success =>
               \A k \in 1..(Len(svc.attempts) - 1) : ~RecordSucceeded(k)
        /\ (~svc.success /\ svc.retry_times >= 1) =>
               Len(svc.attempts) = svc.retry_times

C32_Witness ==
    /\ svc.op = "update_seats"
    /\ svc.pc = "returned"
    /\ svc.success
    /\ Len(svc.attempts) = 2
    /\ svc.attempts[1].status_code = 200
    /\ svc.answers[1].body = "refused"
    /\ svc.attempts[2].status_code = 204

\* C33: update_seats called with an attempt count of 0 or below sends no
\* request, takes no delay, and returns success = false with an empty
\* attempt log.
C33_NoAttemptsConfigured ==
    (svc.op = "update_seats" /\ svc.retry_times <= 0) =>
        /\ svc.pc = "returned"
        /\ svc.sent = 0
        /\ svc.delays = << >>
        /\ ~svc.success
        /\ svc.attempts = << >>

C33_Witness ==
    /\ svc.op = "update_seats"
    /\ svc.retry_times = 0 - 1
    /\ svc.pc = "returned"
    /\ svc.attempts = << >>

\* The positions of a task inside ensure_valid_token_with_force.
ExchangeSteps == {"ev_check", "ev_refresh", "ev_pwd", "ev_store"}

\* The errors the exchange chain returns.
ExchangeErrors == {"get_decrypted_password", "sign_in", "update_account_tokens"}

\* C34: when the forced refresh triggered by a 401 fails, get_current_user
\* sends no retry request: while the forced refresh runs, one request was
\* sent; the retry pass goes on to its request only after the refresh stored
\* its tokens; and a call that sent a request and ended in the failure of
\* the exchange chain sent exactly that one request, and returns the chain's
\* error.
C34_FailedRefreshNoRetry ==
    \A p \in Procs :
        task[p].op = "get_current_user" =>
            /\ (task[p].is_retry /\ task[p].pc \in ExchangeSteps) =>
                   task[p].reqLog = << 401 >>
            /\ (task[p].is_retry /\ task[p].pc \notin ExchangeSteps) =>
                   /\ task[p].evTrace # << >>
                   /\ Last(task[p].evTrace) = "store_ok"
            /\ (task[p].pc = "done" /\ task[p].reqLog # << >>
                    /\ task[p].evTrace # << >>) =>
                   /\ task[p].reqLog = << 401 >>
                   /\ ~task[p].result.ok
                   /\ task[p].result.error \in ExchangeErrors

C34_Witness ==
    \E p \in Procs :
        /\ task[p].op = "get_current_user"
        /\ task[p].pc = "done"
        /\ task[p].reqLog = << 401 >>
        /\ task[p].evTrace = << "refresh_err", "password_ok", "sign_in_err" >>
        /\ task[p].result = Err("sign_in")

\* The numbers of the exchanges: the initial one, and at most two in a
\* command (get_current_user and its retry).
Exchanges == 1..(1 + 2 * MaxOps)

\* Task p sends the request of its first pass, respectively of its retry pass.
FirstRequest(p) ==
    /\ task[p].op = "get_current_user"
    /\ task[p].pc = "gcu_call"
    /\ ~task[p].is_retry

RetryRequest(p) ==
    /\ task[p].op = "get_current_user"
    /\ task[p].pc = "gcu_call"
    /\ task[p].is_retry

\* C35: the retry request sent after a 401 carries the token obtained by the
\* forced refresh, never the token that was just rejected: at the request
\* of the retry pass the token is the one of the in-memory account, which
\* the exchange of this pass returned and stored, and once a first pass has
\* sent the token of some exchange, its retry request carries the token of
\* a later exchange.
C35_RetryCarriesNewToken ==
    /\ [](\A p \in Procs :
            RetryRequest(p) =>
                /\ task[p].token # NoToken
                /\ task[p].token = task[p].account.token
                /\ task[p].evTrace # << >>
                /\ Last(task[p].evTrace) = "store_ok")
    /\ \A p \in Procs : \A g \in Exchanges :
            [](FirstRequest(p) /\ task[p].token.id = g =>
                  [](RetryRequest(p) => task[p].token.id > g))
    /\ [](gen \in Exchanges)

C35_Witness ==
    \E p \in Procs :
        /\ RetryRequest(p)
        /\ task[p].reqLog = << 401 >>
        /\ task[p].token.id > 1

\* The commands that call ensure_valid_token.
EnsuringOps == {"get_billing", "get_current_user", "reset_credits"}

\* C36: when ensure_valid returns an error the in-memory account's token,
\* refresh token and expiry are as they were at entry: they are as at entry
\* as long as the call is running, and still so in a call that ended in an
\* error of the chain.
C36_ErrorLeavesAccount ==
    \A p \in Procs :
        /\ task[p].pc \in ExchangeSteps =>
               Triple(task[p].account) = Triple(task[p].entry)
        /\ (task[p].op \in EnsuringOps /\ task[p].pc = "done"
                /\ task[p].result.error \in ExchangeErrors) =>
               Triple(task[p].account) = Triple(task[p].entry)

C36_Witness ==
    \E p \in Procs :
        /\ task[p].op \in EnsuringOps
        /\ task[p].pc = "done"
        /\ task[p].result = Err("update_account_tokens")
        /\ Last(task[p].evTrace) = "store_err"
        /\ task[p].account.token # NoToken
        /\ task[p].account = task[p].entry

\* The step returns Ok from ensure_valid_token to the command of task p.
EnsureReturnsOk(p) ==
    /\ task[p].pc \in ExchangeSteps
    /\ task'[p].op = task[p].op
    /\ task'[p].pc = AfterEnsure(task[p].op)

\* C37: whenever ensure_valid returns Ok the in-memory account has a token;
\* when the return is the end of the exchange path, token, refresh token and
\* expiry are present and are the triple the exchange returned, which is
\* also what the store holds; and the check on an account whose token has no
\* expiry goes on to the exchange, also with force = false.
C37_OkMeansToken ==
    [][\A p \in Procs :
         /\ EnsureReturnsOk(p) =>
               /\ task'[p].account.token # NoToken
               /\ task[p].pc # "ev_check" =>
                     /\ task[p].pc = "ev_store"
                     /\ Triple(task'[p].account) = task[p].exch
                     /\ task[p].exch.token # NoToken
                     /\ task[p].exch.refresh_token # NoToken
                     /\ task[p].exch.expires_at # None
                     /\ Triple(store') = task[p].exch
               /\ task[p].pc = "ev_check" =>
                     /\ task'[p].account = task[p].account
                     /\ task[p].account.token_expires_at # None
         /\ (task[p].pc = "ev_check" /\ task[p].account.token_expires_at = None) =>
               task'[p].pc \in {"ev_check", "ev_refresh", "ev_pwd"}]_vars

\* The check, not forced, has sent an account whose token has no expiry to
\* the exchange, and the exchange has returned its triple.
C37_Witness ==
    \E p \in Procs :
        /\ task[p].pc = "ev_store"
        /\ ~task[p].force_refresh
        /\ task[p].entry.token # NoToken
        /\ task[p].entry.token_expires_at = None
        /\ task[p].exch.token # NoToken

\* C38: batch_refresh_tokens flushes the store once per batch, after every
\* item has completed and before the result is returned: a running batch
\* has not flushed, a flush has found every id with its entry and no future
\* in progress and has ended the batch, and a returned batch has flushed
\* exactly once.
C38_OneFlushAtTheEnd ==
    pool.cmd = "batch_refresh_tokens" =>
        /\ pool.state = "running" => pool.flushes = 0
        /\ pool.flushes > 0 =>
               /\ pool.flushes = 1
               /\ pool.in_flight = {}
               /\ Len(pool.results) = Len(pool.ids)
               /\ pool.state \in {"returned", "failed"}
        /\ pool.state = "returned" => pool.flushes = 1

C38_Witness ==
    /\ pool.cmd = "batch_refresh_tokens"
    /\ pool.state = "returned"
    /\ pool.max = 1
    /\ Len(pool.ids) = 3
    /\ Len(pool.results) = 3
    /\ pool.flushes = 1
    /\ pool.response.success_count = 2

\* The options of a list.
Options(opts) == { opts[i] : i \in 1..Len(opts) }

\* The seat count of call k is the one the rule gives: the explicit one;
\* else 18 for an empty list, the first option when there is no last seat
\* count or it is no option, and else an option that follows an occurrence
\* of the last seat count, the first following the last.
ChosenByRule(k) ==
    LET c == svc.calls[k]
        n == Len(svc.opts)
    IN  IF c.seat_count # None THEN c.used = c.seat_count
        ELSE IF n = 0 THEN c.used = 18
        ELSE IF c.before = None \/ c.before \notin Options(svc.opts)
        THEN c.used = svc.opts[1]
        ELSE \E i \in 1..n :
                /\ svc.opts[i] = c.before
                /\ c.used = svc.opts[(i % n) + 1]

\* C39: the seat count of every call of reset_credits is chosen by the
\* rule, the seat count used is the account's last_seat_count after the
\* call, and calls without an explicit seat count, as many as there are
\* options, have visited every configured option.
C39_RotationVisitsEveryOption ==
    svc.op = "reset_credits" =>
        /\ \A k \in 1..Len(svc.calls) :
               /\ ChosenByRule(k)
               /\ svc.calls[k].stored =>
                     (IF k < Len(svc.calls) THEN svc.calls[k + 1].before
                      ELSE svc.last) = svc.calls[k].used
        /\ ( /\ Len(svc.opts) > 0
             /\ Len(svc.calls) >= Len(svc.opts)
             /\ \A k \in 1..Len(svc.calls) :
                    svc.calls[k].seat_count = None /\ svc.calls[k].stored )
           => Options(svc.opts) \subseteq
                  { svc.calls[k].used : k \in 1..Len(svc.calls) }

====
